---- MODULE Spec2Model ----
(***************************************************************************)
(* Local retrieval-augmented memory engine of chat-landingPage:            *)
(*   - the Active Memory Window (memory-store: addMessage, getMessages,    *)
(*     getRecentMessages, clearMemory, clearSession),                      *)
(*   - the Session Orchestrator (ChatSession.sendMessage),                 *)
(*   - the archival worker (handleStoreChunks) and                         *)
(*   - the training worker's Local Vector Store (prepareWithProgress,      *)
(*     clearUserData, getSQLite with rehydrateFromIdb).                    *)
(*                                                                         *)
(* Representation of text.  A string is a sequence of symbols.  The symbol *)
(* "B" abbreviates a run of BlockChars characters, every other symbol is   *)
(* one character, so that strings long enough to reach the 800 000 token   *)
(* ceiling stay small values; concatenation is \o and text.length is       *)
(* TextLength.                                                             *)
(***************************************************************************)
EXTENDS Integers, Sequences, FiniteSets, TLC

\* ------------------------------------------------------------------------
\* Bounds of the model
\* ------------------------------------------------------------------------
\* characters abbreviated by one "B" symbol
BlockChars == 420000
\* conversation turns created in one behaviour (also the number of uuids)
MaxTurns == 3

\* ------------------------------------------------------------------------
\* token-utils (src/unnamed/part_003)
\* ------------------------------------------------------------------------
ACTIVE_MEMORY == 800000
RESPONSE_BUFFER == 8000

SymLen(c) == IF c = "B" THEN BlockChars ELSE 1

RECURSIVE TextLength(_)
TextLength(text) ==
  IF text = <<>> THEN 0 ELSE SymLen(Head(text)) + TextLength(Tail(text))

\* Math.ceil(text.length / 3.5), and 0 for the empty string
estimateTokens(text) ==
  IF text = <<>> THEN 0 ELSE (2 * TextLength(text) + 6) \div 7

estimateMessageTokens(content) == estimateTokens(content) + 4

\* messages.reduce((sum, msg) => sum + estimateMessageTokens(msg), 0)
RECURSIVE calculateTotalTokens(_)
calculateTotalTokens(S) ==
  IF S = {} THEN 0
  ELSE LET m == CHOOSE x \in S : TRUE
       IN estimateMessageTokens(m.content) + calculateTotalTokens(S \ {m})

\* ------------------------------------------------------------------------
\* memory-store (src/unnamed/part_004): the Active Memory Window
\* ------------------------------------------------------------------------
Roles == {"user", "assistant", "system"}
Sessions == {"default", "other"}
\* uuids: only their order matters (IndexedDB orders index entries that
\* share an index key by primary key)
Ids == 1 .. MaxTurns
NoId == 0
NoSession == ""

Rep(n) == [i \in 1 .. n |-> "B"]
\* the (role, content) pairs a caller passes to addMessage: turns of 5,
\* 360 004, 720 004 and 840 004 tokens
Turns ==
  {[role |-> "user", content |-> <<"a">>],
   [role |-> "assistant", content |-> Rep(3)],
   [role |-> "system", content |-> Rep(6)],
   [role |-> "user", content |-> Rep(7)]}
\* budgets a caller passes to getRecentMessages (32000 is the default)
Budgets == {32000, 400000}

VARIABLES
  msgs,     \* object store "messages": a set of ConversationMessage records
  meta,     \* object store "meta", record "main"
  now,      \* the clock read by new Date(): turns created so far
  ret       \* what the last memory-store call returned (observation only)

memVars == <<msgs, meta, now, ret>>

VARIABLES
  useContext,  \* ChatSession.useContext (fixed by the constructor)
  ss,          \* the sendMessage call in progress: its position and locals
  events       \* what that call has done so far, in order (observation only)

sessVars == <<useContext, ss, events>>

\* state of the training worker (src/unnamed/part_000, from line 692)
VARIABLES
  host,           \* what the browser offers: OPFS (crossOriginIsolated), vec0
  db,             \* the module variable db: "null" or "open"
  table,          \* rows of training_chunks
  rowSeq,         \* sqlite_sequence of training_chunks (AUTOINCREMENT)
  vectors,        \* rows of the vec0 table "vectors"
  vec0Available,  \* the module variable vec0Available
  idb,            \* records of the IndexedDB store "chunks" (the mirror)
  ingests,        \* prepare requests handled so far
  lastOp          \* the last request the worker handled (observation only)

storeVars ==
  <<host, db, table, rowSeq, vectors, vec0Available, idb, ingests, lastOp>>

\* what the page last got back from the training worker (observation only)
VARIABLES reply

searchVars == <<reply>>

\* state of the archival worker (src/components/chat-widget.ts, from line 284)
VARIABLES
  archive,        \* records of the store "chunks" of terapeuta_vectors
  storeCalls,     \* storeChunks requests handled so far
  storeResults    \* the results of the last storeComplete reply

archiveVars == <<archive, storeCalls, storeResults>>

\* the embedderPromise of each module that loads the embedding model, with
\* what its last getEmbedder call did (observation only)
VARIABLES embedder

embVars == <<embedder>>

\* the page's calls to its two workers: the archival bridge (workerCall,
\* pendingCallbacks) and the message listeners of the vector-search calls
VARIABLES bridge

bridgeVars == <<bridge>>

\* the last getRelevantContext call (observation only) and the running
\* chunkText call of the training page
VARIABLES ctx, seg

textVars == <<ctx, seg>>

\* the addMessage calls in progress, one per caller, step by step
VARIABLES adders

raceVars == <<adders>>

\* the training worker's getSQLite calls step by step: db, dbPromise,
\* rehydratePromise and vec0Available between the awaits
VARIABLES wk

initVars == <<wk>>

\* the getEmbedder calls of the training page, the training worker and the
\* embeddings pipeline, step by step
VARIABLES ld

\* the embedChunksWithConcurrency call of the training page
VARIABLES pool

\* the batching loop of the training worker's prepareWithProgress
VARIABLES bt

\* the chat widget: isProcessing, historyLoaded, the input field and the
\* handleSubmit calls in progress
VARIABLES wg

\* the ingestion of the training worker that is in flight, row by row
VARIABLES ing

\* the last archiveMessages call of the page: the chunks it sent and how its
\* promise settled
VARIABLES am

lastVars == <<ld, pool, bt, wg, ing, am>>

laterVars == <<raceVars, initVars, lastVars>>

\* the variables of the parts introduced further down
auxVars == <<searchVars, embVars, bridgeVars, textVars, laterVars>>

EmptyMeta ==
  [tokenTotal |-> 0, messageCount |-> 0, oldestMessageId |-> NoId,
   newestMessageId |-> NoId]

\* db.getAllFromIndex(MESSAGES_STORE, "byCreatedAt"): ascending createdAt,
\* ties by primary key
RECURSIVE ByCreatedAt(_)
ByCreatedAt(S) ==
  IF S = {} THEN <<>>
  ELSE LET m == CHOOSE x \in S : \A y \in S :
                  \/ x.createdAt < y.createdAt
                  \/ x.createdAt = y.createdAt /\ x.id <= y.id
       IN <<m>> \o ByCreatedAt(S \ {m})

\* db.getAllFromIndex(MESSAGES_STORE, "bySessionId", sessionId): the entries
\* whose index key is sessionId, ascending primary key (the uuid)
RECURSIVE ByPrimaryKey(_)
ByPrimaryKey(S) ==
  IF S = {} THEN <<>>
  ELSE LET m == CHOOSE x \in S : \A y \in S : x.id <= y.id
       IN <<m>> \o ByPrimaryKey(S \ {m})

BySessionId(S, sessionId) ==
  ByPrimaryKey({m \in S : m.sessionId = sessionId})

\* newTokenTotal <= TOKEN_LIMITS.ACTIVE_MEMORY * 0.9 (the product is exactly
\* 720000 in IEEE doubles)
EvictStopped(total) == 10 * total <= 9 * ACTIVE_MEMORY

\* db.delete(MESSAGES_STORE, id)
DbDelete(store, id) == {m \in store : m.id # id}

\* the eviction loop of addMessage that returns every turn but the first one
\* it deletes
RECURSIVE EvictLoopUnreported(_, _, _, _, _)
EvictLoopUnreported(all, i, total, evicted, store) ==
  IF i > Len(all) \/ EvictStopped(total)
    THEN [total |-> total, evicted |-> evicted, store |-> store]
    ELSE EvictLoopUnreported(all, i + 1, total - all[i].tokenCount,
                             IF i = 1 THEN evicted ELSE Append(evicted, all[i]),
                             DbDelete(store, all[i].id))

\* the eviction loop of addMessage, from position i of allMessages:
\* the running total, the evicted list and the store it leaves
RECURSIVE EvictLoop(_, _, _, _, _)
EvictLoop(all, i, total, evicted, store) ==
  IF i > Len(all) \/ EvictStopped(total)
    THEN [total |-> total, evicted |-> evicted, store |-> store]
    ELSE EvictLoop(all, i + 1, total - all[i].tokenCount,
                   Append(evicted, all[i]), DbDelete(store, all[i].id))

\* newTokenTotal > TOKEN_LIMITS.ACTIVE_MEMORY
NeedsEviction(total) == total > ACTIVE_MEMORY

SeqToSet(s) == {s[i] : i \in 1 .. Len(s)}

MetaOf(all, total) ==
  [tokenTotal |-> total,
   messageCount |-> Len(all),
   oldestMessageId |-> IF Len(all) = 0 THEN NoId ELSE all[1].id,
   newestMessageId |-> IF Len(all) = 0 THEN NoId ELSE all[Len(all)].id]

\* addMessage(role, content, sessionId) on the stores (S, mt) with the uuid
\* and the clock value it draws: the stores after it and what it returns
addMessage(S, mt, role, content, sessionId, id, at) ==
  LET message == [id |-> id, role |-> role, content |-> content,
                  createdAt |-> at,
                  tokenCount |-> estimateMessageTokens(content),
                  sessionId |-> sessionId]
      total0 == mt.tokenTotal + message.tokenCount
      loop == IF NeedsEviction(total0)
                THEN EvictLoop(ByCreatedAt(S), 1, total0, <<>>, S)
                ELSE [total |-> total0, evicted |-> <<>>, store |-> S]
      kept == loop.store \cup {message}
  IN [msgs |-> kept,
      meta |-> MetaOf(ByCreatedAt(kept), loop.total),
      message |-> message,
      evicted |-> loop.evicted]

\* getMessages(sessionId)
getMessages(S, sessionId) ==
  IF sessionId # NoSession THEN BySessionId(S, sessionId) ELSE ByCreatedAt(S)

\* the loop of getRecentMessages, from position i of allMessages downwards
RECURSIVE RecentLoop(_, _, _, _, _)
RecentLoop(all, i, tokenCount, maxTokens, result) ==
  IF i < 1 \/ tokenCount + all[i].tokenCount > maxTokens
    THEN result
    ELSE RecentLoop(all, i - 1, tokenCount + all[i].tokenCount, maxTokens,
                    <<all[i]>> \o result)

getRecentMessages(S, maxTokens, sessionId) ==
  LET all == getMessages(S, sessionId)
  IN RecentLoop(all, Len(all), 0, maxTokens, <<>>)

NoRet ==
  [op |-> "none", sessionId |-> NoSession, maxTokens |-> 0,
   before |-> {}, metaBefore |-> EmptyMeta, added |-> {}, evicted |-> <<>>,
   result |-> <<>>]

MemInit ==
  /\ msgs = {}
  /\ meta = EmptyMeta
  /\ now = 0
  /\ ret = NoRet

FreshIds(S) == Ids \ {m.id : m \in S}

\* a caller awaits addMessage(role, content, sessionId)
AddMessageCall ==
  /\ now < MaxTurns
  /\ \E t \in Turns, sessionId \in Sessions, id \in FreshIds(msgs) :
       LET r == addMessage(msgs, meta, t.role, t.content, sessionId, id,
                           now + 1)
       IN /\ msgs' = r.msgs
          /\ meta' = r.meta
          /\ now' = now + 1
          /\ ret' = [NoRet EXCEPT !.op = "addMessage",
                                  !.sessionId = sessionId,
                                  !.before = msgs,
                                  !.metaBefore = meta,
                                  !.added = {r.message},
                                  !.evicted = r.evicted]
  /\ UNCHANGED <<sessVars, storeVars, archiveVars, auxVars>>

\* a caller awaits getRecentMessages(maxTokens, sessionId)
GetRecentMessagesCall ==
  /\ \E maxTokens \in Budgets, sessionId \in Sessions \cup {NoSession} :
       ret' = [NoRet EXCEPT !.op = "getRecentMessages",
                            !.sessionId = sessionId,
                            !.maxTokens = maxTokens,
                            !.before = msgs,
                            !.metaBefore = meta,
                            !.result = getRecentMessages(msgs, maxTokens,
                                                         sessionId)]
  /\ UNCHANGED <<msgs, meta, now>>
  /\ UNCHANGED <<sessVars, storeVars, archiveVars, auxVars>>

\* clearMemory()
ClearMemoryCall ==
  /\ msgs' = {}
  /\ meta' = EmptyMeta
  /\ ret' = [NoRet EXCEPT !.op = "clearMemory", !.before = msgs,
                          !.metaBefore = meta]
  /\ UNCHANGED <<now, sessVars, storeVars, archiveVars, auxVars>>

\* clearSession(sessionId)
ClearSessionCall ==
  /\ \E sessionId \in Sessions :
       LET gone == SeqToSet(BySessionId(msgs, sessionId))
           remaining == msgs \ gone
       IN /\ msgs' = remaining
          /\ meta' = MetaOf(ByCreatedAt(remaining),
                            calculateTotalTokens(remaining))
          /\ ret' = [NoRet EXCEPT !.op = "clearSession",
                                  !.sessionId = sessionId,
                                  !.before = msgs,
                                  !.metaBefore = meta]
  /\ UNCHANGED <<now, sessVars, storeVars, archiveVars, auxVars>>

\* ------------------------------------------------------------------------
\* addMessage step by step (src/unnamed/part_004, lines 291-338): what two
\* callers do between the awaits of one call. The eviction loop is taken as
\* one step.
\* ------------------------------------------------------------------------
Callers == {1, 2}

NoAdder == [pc |-> "idle", message |-> <<>>, total |-> 0, sessionId |-> NoSession, updates |-> EmptyMeta]

AddersInit == adders = [c \in Callers |-> NoAdder]

\* uuidv4() never returns an id in use; the turns of the interleaved calls
\* get distinct createdAt, so which unused id is drawn changes nothing
UnusedIds ==
  FreshIds(msgs) \ {adders[c].message[1].id : c \in {x \in Callers : adders[x].message # <<>>}}
NextId == CHOOSE id \in UnusedIds : \A other \in UnusedIds : id <= other

\* the turns the interleaved callers add: 5 and 720 004 tokens
RaceTurns == {t \in Turns : t.role \in {"user", "system"} /\ Len(t.content) \in {1, 6}}

\* const meta = await getMeta(); the message is built and newTokenTotal
\* computed from the aggregate just read
AddReadsMeta ==
  /\ now < MaxTurns
  /\ \E c \in Callers, t \in RaceTurns, sessionId \in Sessions :
       /\ adders[c].pc = "idle"
       /\ UnusedIds # {}
       /\ LET message == [id |-> NextId, role |-> t.role, content |-> t.content,
                          createdAt |-> now + 1,
                          tokenCount |-> estimateMessageTokens(t.content),
                          sessionId |-> sessionId]
          IN adders' = [adders EXCEPT ![c] =
                          [NoAdder EXCEPT !.pc = "evict",
                                          !.message = <<message>>,
                                          !.sessionId = sessionId,
                                          !.total = meta.tokenTotal + message.tokenCount]]
       /\ now' = now + 1
  /\ UNCHANGED <<msgs, meta, ret>>

\* if (newTokenTotal > ACTIVE_MEMORY): read the log, delete oldest turns
AddEvicts ==
  \E c \in Callers :
    /\ adders[c].pc = "evict"
    /\ LET loop == IF NeedsEviction(adders[c].total)
                     THEN EvictLoop(ByCreatedAt(msgs), 1, adders[c].total, <<>>, msgs)
                     ELSE [total |-> adders[c].total, evicted |-> <<>>, store |-> msgs]
       IN /\ msgs' = loop.store
          /\ adders' = [adders EXCEPT ![c].pc = "add", ![c].total = loop.total]
    /\ UNCHANGED <<meta, now, ret>>

\* await db.add(MESSAGES_STORE, message)
AddStores ==
  \E c \in Callers :
    /\ adders[c].pc = "add"
    /\ msgs' = msgs \cup {adders[c].message[1]}
    /\ adders' = [adders EXCEPT ![c].pc = "list"]
    /\ UNCHANGED <<meta, now, ret>>

\* const allMessages = await db.getAllFromIndex(MESSAGES_STORE, "byCreatedAt")
AddListsLog ==
  \E c \in Callers :
    /\ adders[c].pc = "list"
    /\ adders' = [adders EXCEPT ![c].pc = "put",
                                ![c].updates = MetaOf(ByCreatedAt(msgs), adders[c].total)]
    /\ UNCHANGED <<msgs, meta, now, ret>>

\* updateMeta(updates): the four fields of the record are overwritten; the
\* call returns
AddUpdatesMeta ==
  \E c \in Callers :
    /\ adders[c].pc = "put"
    /\ meta' = adders[c].updates
    /\ adders' = [adders EXCEPT ![c] = [NoAdder EXCEPT !.pc = "idle"]]
    /\ ret' = [NoRet EXCEPT !.op = "addMessage",
                            !.sessionId = adders[c].sessionId,
                            !.added = {adders[c].message[1]}]
    /\ UNCHANGED <<msgs, now>>

\* clearMemory() and clearSession(sessionId) while addMessage calls are in
\* progress (each taken as one step)
ClearMemoryMeanwhile ==
  /\ msgs' = {}
  /\ meta' = EmptyMeta
  /\ UNCHANGED <<now, ret, adders>>

ClearSessionMeanwhile ==
  /\ \E sessionId \in Sessions :
       LET remaining == msgs \ SeqToSet(BySessionId(msgs, sessionId))
       IN /\ msgs' = remaining
          /\ meta' = MetaOf(ByCreatedAt(remaining),
                            calculateTotalTokens(remaining))
  /\ UNCHANGED <<now, ret, adders>>

\* ------------------------------------------------------------------------
\* chat-session and llm-client (src/src/services): ChatSession.sendMessage
\* ------------------------------------------------------------------------
\* ChatSession.sessionId: config.sessionId || "default"
SessionId == "default"
\* getRecentMessages(TOKEN_LIMITS.RESPONSE_BUFFER * 4, this.sessionId)
RecentBudget == RESPONSE_BUFFER * 4

\* context: string | undefined
NoContext == <<"undefined">>
Contexts == {<<"c">>}

\* stream chunks and replies of the generation call: chunk.content is a
\* string or a list of content parts
StringContent(text) == [isString |-> TRUE, text |-> text]
PartsContent(text) == [isString |-> FALSE, text |-> text]
LlmContents ==
  {StringContent(<<"a">>), StringContent(Rep(3)), StringContent(<<>>),
   PartsContent(<<"p">>)}
\* what the user types
UserContents == {<<"a">>, Rep(6)}
\* stream chunks of one reply
MaxChunks == 2

\* typeof chunk.content === "string" ? chunk.content : ""
ChunkText(c) == IF c.isString THEN c.text ELSE <<>>
\* typeof response.content === "string" ? response.content
\*                                      : JSON.stringify(response.content)
ReplyText(c) == IF c.isString THEN c.text ELSE <<"[">> \o c.text \o <<"]">>

\* the callback handed to streamResponse keeps the first chunk only
StreamAppendFirstOnly(acc, chunk) == IF acc = <<>> THEN chunk ELSE acc

\* fullResponse += content, and partial += chunk in the callback of
\* sendMessage
StreamAppend(acc, chunk) == acc \o chunk

Idle ==
  [pc |-> "idle", userContent |-> <<>>, streaming |-> FALSE,
   evicted |-> <<>>, recent |-> <<>>, context |-> NoContext,
   retrievalFailed |-> FALSE, fullResponse |-> <<>>, partial |-> <<>>,
   chunks |-> 0, assistantContent |-> <<>>, cause |-> "none"]

SessInit ==
  /\ useContext \in BOOLEAN
  /\ ss = Idle
  /\ events = <<>>

Event(kind, text) == [kind |-> kind, text |-> text]

\* the ids of the turns of a list
TurnIds(turns) == [i \in DOMAIN turns |-> turns[i].id]

\* if (userEvicted.length > 0), if (assistantEvicted.length > 0); the variant
\* never archives
ArchiveNever(evicted) == FALSE
ArchiveNeeded(evicted) == Len(evicted) > 0

\* await archiveMessages(evicted) is entered with the evicted turns
ArchiveCalled(evicted) ==
  IF ArchiveNeeded(evicted) THEN <<Event("archiveCalled", TurnIds(evicted))>>
  ELSE <<>>

\* sendMessage is called: addMessage("user", userContent, sessionId) and
\* onMessageAdded
SendMessageStart ==
  /\ ss.pc \in {"idle", "returned", "rejected"}
  /\ now < MaxTurns
  /\ \E userContent \in UserContents, streaming \in BOOLEAN,
        id \in FreshIds(msgs) :
       LET r == addMessage(msgs, meta, "user", userContent, SessionId, id,
                           now + 1)
       IN /\ msgs' = r.msgs
          /\ meta' = r.meta
          /\ now' = now + 1
          /\ ss' = [Idle EXCEPT !.pc = IF ArchiveNeeded(r.evicted)
                                          THEN "archiveUser" ELSE "retrieve",
                                !.userContent = userContent,
                                !.streaming = streaming,
                                !.evicted = r.evicted]
          /\ events' = <<Event("persistUser", userContent)>>
                          \o ArchiveCalled(r.evicted)
  /\ UNCHANGED <<ret, useContext, storeVars, archiveVars, auxVars>>

\* what sendMessage does when getRelevantContext throws: the catch logs a
\* warning and context stays undefined; this variant lets the error escape
RetrievalFailedUncaught(s) == [s EXCEPT !.pc = "rejected", !.cause = "retrieval"]

\* try { context = await getRelevantContext(userContent) } catch (e) { warn }
RetrievalFailed(s) ==
  [s EXCEPT !.pc = "generate", !.context = NoContext, !.retrievalFailed = TRUE]

\* await archiveMessages(evicted) settles: resolved (then onEvicted), or
\* rejected by the worker call (error response, timeout)
ArchiveEvicted ==
  /\ ss.pc \in {"archiveUser", "archiveAssistant"}
  /\ \E ok \in BOOLEAN :
       /\ ss' = IF ok
                  THEN [ss EXCEPT !.pc = IF ss.pc = "archiveUser"
                                           THEN "retrieve" ELSE "returned",
                                  !.evicted = <<>>]
                  ELSE [ss EXCEPT !.pc = "rejected", !.cause = "archive"]
       /\ events' = IF ok
                      THEN events \o <<Event("archived", <<>>),
                                       Event("onEvicted", TurnIds(ss.evicted))>>
                      ELSE Append(events, Event("archiveFailed", <<>>))
  /\ UNCHANGED <<memVars, useContext, storeVars, archiveVars, auxVars>>

\* getRecentMessages, then context retrieval when useContext
RetrieveContext ==
  /\ ss.pc = "retrieve"
  /\ LET s1 == [ss EXCEPT !.recent = getRecentMessages(msgs, RecentBudget,
                                                       SessionId)]
     IN IF useContext
          THEN \/ \E c \in Contexts \cup {NoContext} :
                    /\ ss' = [s1 EXCEPT !.pc = "generate", !.context = c]
                    /\ events' = Append(events, Event("retrieved", c))
               \/ /\ ss' = RetrievalFailed(s1)
                  /\ events' = Append(events, Event("retrievalFailed", <<>>))
          ELSE /\ ss' = [s1 EXCEPT !.pc = "generate"]
               /\ events' = events
  /\ UNCHANGED <<memVars, useContext, storeVars, archiveVars, auxVars>>

\* the generation call is invoked: streamResponse(messages, context, cb) or
\* generateResponse(messages, context); getLLM() or llm.stream() may throw
InvokeGeneration ==
  /\ ss.pc = "generate"
  /\ \/ /\ ss' = [ss EXCEPT !.pc = IF ss.streaming THEN "streaming"
                                                   ELSE "invoked"]
        /\ events' = Append(events, Event("generationInvoked", ss.context))
     \/ /\ ss' = [ss EXCEPT !.pc = "rejected", !.cause = "generation"]
        /\ events' = Append(events, Event("generationFailed", <<>>))
  /\ UNCHANGED <<memVars, useContext, storeVars, archiveVars, auxVars>>

\* for await (const chunk of stream): fullResponse += content;
\* onChunk(content), which appends to partial and calls onStream(partial)
StreamChunk ==
  /\ ss.pc = "streaming"
  /\ ss.chunks < MaxChunks
  /\ \E c \in LlmContents :
       /\ ss' = [ss EXCEPT !.fullResponse = StreamAppend(@, ChunkText(c)),
                           !.partial = StreamAppend(@, ChunkText(c)),
                           !.chunks = @ + 1]
       /\ events' = Append(events, Event("chunk", ChunkText(c)))
  /\ UNCHANGED <<memVars, useContext, storeVars, archiveVars, auxVars>>

\* the stream ends (return fullResponse) or throws
StreamEnd ==
  /\ ss.pc = "streaming"
  /\ \/ /\ ss' = [ss EXCEPT !.pc = "persist",
                            !.assistantContent = ss.fullResponse]
        /\ events' = Append(events, Event("generationDone", ss.fullResponse))
     \/ /\ ss' = [ss EXCEPT !.pc = "rejected", !.cause = "generation"]
        /\ events' = Append(events, Event("generationFailed", <<>>))
  /\ UNCHANGED <<memVars, useContext, storeVars, archiveVars, auxVars>>

\* llm.invoke settles
GenerateDone ==
  /\ ss.pc = "invoked"
  /\ \/ \E c \in LlmContents :
          /\ ss' = [ss EXCEPT !.pc = "persist",
                              !.assistantContent = ReplyText(c)]
          /\ events' = Append(events, Event("generationDone", ReplyText(c)))
     \/ /\ ss' = [ss EXCEPT !.pc = "rejected", !.cause = "generation"]
        /\ events' = Append(events, Event("generationFailed", <<>>))
  /\ UNCHANGED <<memVars, useContext, storeVars, archiveVars, auxVars>>

\* addMessage("assistant", assistantContent, sessionId), onMessageAdded, and
\* the return when nothing was evicted
PersistAssistant ==
  /\ ss.pc = "persist"
  /\ now < MaxTurns
  /\ \E id \in FreshIds(msgs) :
       LET r == addMessage(msgs, meta, "assistant", ss.assistantContent,
                           SessionId, id, now + 1)
       IN /\ msgs' = r.msgs
          /\ meta' = r.meta
          /\ now' = now + 1
          /\ ss' = [ss EXCEPT !.pc = IF ArchiveNeeded(r.evicted)
                                       THEN "archiveAssistant" ELSE "returned",
                              !.evicted = r.evicted]
          /\ events' = Append(events,
                              Event("persistAssistant", r.message.content))
                          \o ArchiveCalled(r.evicted)
  /\ UNCHANGED <<ret, useContext, storeVars, archiveVars, auxVars>>

NextSession ==
  \/ SendMessageStart
  \/ ArchiveEvicted
  \/ RetrieveContext
  \/ InvokeGeneration
  \/ StreamChunk
  \/ StreamEnd
  \/ GenerateDone
  \/ PersistAssistant
\* ------------------------------------------------------------------------
\* Training worker (src/unnamed/part_000, lines 692-1692): the Local Vector
\* Store: table training_chunks, the vec0 index "vectors" and the IndexedDB
\* mirror, with getSQLite, rehydrateFromIdb, prepareWithProgress and
\* clearUserData
\* ------------------------------------------------------------------------
\* vec0(embedding float[768]): 768 float32 values are 3072 bytes
EMBEDDING_DIM == 768
BYTES_PER_FLOAT == 4

\* prepare requests handled in one behaviour
MaxIngests == 2

Users == <<"u1", "u2">>
Sources == <<"doc">>
\* texts handed to prepare; "#" stands for a line that starts a "## "
\* section, every other symbol for one character
Documents == {<<"x", "#", "y">>, <<"x", "#", "z">>, <<"w">>}
\* lengths of the vectors the inference engine returns for the rows
OutLengths == {EMBEDDING_DIM, EMBEDDING_DIM - 1}
\* vectors = output?.data || []: the rows of an output without data have no
\* vector at all (length 0 below)
NoData(n) == [j \in 1 .. n |-> 0]

Rank(seq, x) == CHOOSE i \in DOMAIN seq : seq[i] = x
Range(seq) == {seq[i] : i \in DOMAIN seq}

\* embeddings: NULL, a Float32Array of n floats, a blob of n bytes, a plain
\* array of n numbers; "of" is the text the vector was computed from
NullEmbedding == [kind |-> "null", n |-> 0, of |-> <<>>]
F32(n, text) == [kind |-> "f32", n |-> n, of |-> text]
Blob(n, text) == [kind |-> "bytes", n |-> n, of |-> text]
NumberArray(n, text) == [kind |-> "array", n |-> n, of |-> text]

\* embedding.byteLength (undefined for a plain array)
ByteLength(e) ==
  CASE e.kind = "f32" -> e.n * BYTES_PER_FLOAT
    [] e.kind = "bytes" -> e.n
    [] OTHER -> -1

\* toVecBlobFromEmbedding(embedding): the bytes of the vector, or null
toVecBlobFromEmbedding(e) ==
  IF e.kind = "null" THEN NullEmbedding
  ELSE IF ByteLength(e) # EMBEDDING_DIM * BYTES_PER_FLOAT THEN NullEmbedding
  ELSE Blob(ByteLength(e), e.of)

\* chunkText(text) of the worker on a text whose sections fit maxLen:
\* text.split(/^##\s+/m), the head if it is not blank, then one chunk
\* "## title\nbody" per part
RECURSIVE SplitSections(_, _, _)
SplitSections(text, current, isHead) ==
  IF text = <<>>
    THEN IF isHead /\ current = <<>> THEN <<>> ELSE <<current>>
  ELSE IF Head(text) = "#"
    THEN (IF isHead /\ current = <<>> THEN <<>> ELSE <<current>>)
         \o SplitSections(Tail(text), <<"#">>, FALSE)
  ELSE SplitSections(Tail(text), Append(current, Head(text)), isHead)

chunkTextWorker(text) ==
  IF "#" \notin Range(text) THEN <<text>> ELSE SplitSections(text, <<>>, TRUE)

\* the worker's stores as one value
Worker ==
  [db |-> db, table |-> table, rowSeq |-> rowSeq, vectors |-> vectors,
   vec0Available |-> vec0Available, idb |-> idb]

SameKey(r, userId, sourceName, chunkIndex) ==
  /\ r.userId = userId
  /\ r.sourceName = sourceName
  /\ r.chunkIndex = chunkIndex

Max(a, b) == IF a >= b THEN a ELSE b

Min(a, b) == IF a < b THEN a ELSE b

\* INSERT INTO vectors(rowid, embedding), then on failure DELETE and INSERT
\* again; vec0Disable when that fails too
vec0Upsert(w, rowId, bytes, fails) ==
  IF ~w.vec0Available THEN w
  ELSE LET others == {v \in w.vectors : v.rowid # rowId}
       IN IF fails
            THEN [w EXCEPT !.vectors = others, !.vec0Available = FALSE]
            ELSE [w EXCEPT !.vectors =
                             others \cup {[rowid |-> rowId, embedding |-> bytes]}]

\* the variant of rehydration that restores no row
InsertNothing(w, row) == w

\* INSERT OR REPLACE INTO training_chunks (id, ...): rows in conflict on the
\* primary key or on UNIQUE(userId, sourceName, chunkIndex) are removed
InsertOrReplace(w, row) ==
  [w EXCEPT
     !.table = {r \in @ : /\ r.id # row.id
                          /\ ~SameKey(r, row.userId, row.sourceName,
                                      row.chunkIndex)}
               \cup {row},
     !.rowSeq = Max(@, row.id)]

\* the IndexedDB cursor visits records in key order
\* (userId::sourceName::chunkIndex)
KeyBefore(a, b) ==
  \/ Rank(Users, a.userId) < Rank(Users, b.userId)
  \/ /\ a.userId = b.userId
     /\ \/ Rank(Sources, a.sourceName) < Rank(Sources, b.sourceName)
        \/ /\ a.sourceName = b.sourceName
           /\ a.chunkIndex <= b.chunkIndex

RECURSIVE InKeyOrder(_)
InKeyOrder(S) ==
  IF S = {} THEN <<>>
  ELSE LET m == CHOOSE x \in S : \A y \in S : KeyBefore(x, y)
       IN <<m>> \o InKeyOrder(S \ {m})

\* the cursor loop of rehydrateFromIdb
RECURSIVE RehydrateLoop(_, _)
RehydrateLoop(w, records) ==
  IF records = <<>> THEN w
  ELSE LET row == Head(records)
           bytes == toVecBlobFromEmbedding(row.embedding)
       IN IF bytes = NullEmbedding
            THEN RehydrateLoop(w, Tail(records))
            ELSE RehydrateLoop(
                   vec0Upsert(
                     InsertOrReplace(w,
                       [id |-> row.id, userId |-> row.userId,
                        sourceName |-> row.sourceName,
                        chunkIndex |-> row.chunkIndex, text |-> row.text,
                        embedding |-> bytes, status |-> row.status]),
                     row.id, bytes, FALSE),
                   Tail(records))

rehydrateFromIdb(w) == RehydrateLoop(w, InKeyOrder(w.idb))

\* getSQLite(): the open database; the first call opens it, creates the
\* tables, creates and self-tests vec0 and rehydrates from the mirror
getSQLite(w) ==
  IF w.db = "open" THEN w
  ELSE [rehydrateFromIdb([w EXCEPT !.vec0Available = host.vec0])
          EXCEPT !.db = "open"]

\* DELETE FROM training_chunks without the WHERE clause
DeleteAllRows(w, userId) == [w EXCEPT !.table = {}]

\* DELETE FROM training_chunks WHERE userId = ?
DeleteUserRows(w, userId) ==
  [w EXCEPT !.table = {r \in @ : r.userId # userId}]

\* idbDeleteUser(userId)
idbDeleteUser(w, userId) ==
  [w EXCEPT !.idb = {r \in @ : r.userId # userId}]

\* INSERT INTO training_chunks without the conflict clause
InsertAlways(w, userId, sourceName, chunkIndex, text) ==
  [w EXCEPT
     !.table = @ \cup {[id |-> w.rowSeq + 1, userId |-> userId,
                        sourceName |-> sourceName, chunkIndex |-> chunkIndex,
                        text |-> text, embedding |-> NullEmbedding,
                        status |-> "pending"]},
     !.rowSeq = @ + 1]

\* INSERT OR IGNORE INTO training_chunks (userId, sourceName, chunkIndex,
\* text, status) VALUES (?, ?, ?, ?, 'pending')
InsertOrIgnore(w, userId, sourceName, chunkIndex, text) ==
  IF \E r \in w.table : SameKey(r, userId, sourceName, chunkIndex)
    THEN w
    ELSE [w EXCEPT
            !.table = @ \cup {[id |-> w.rowSeq + 1, userId |-> userId,
                               sourceName |-> sourceName,
                               chunkIndex |-> chunkIndex, text |-> text,
                               embedding |-> NullEmbedding,
                               status |-> "pending"]},
            !.rowSeq = @ + 1]

\* the "Initialize pending" loop of prepareWithProgress (chunkIndex i - 1)
RECURSIVE InsertPending(_, _, _, _, _)
InsertPending(w, userId, sourceName, chunks, i) ==
  IF i > Len(chunks) THEN w
  ELSE InsertPending(
         InsertOrIgnore(w, userId, sourceName, i - 1, chunks[i]),
         userId, sourceName, chunks, i + 1)

\* SELECT * FROM training_chunks WHERE userId = ? AND sourceName = ? AND
\* status = 'pending' ORDER BY chunkIndex ASC
RECURSIVE ByChunkIndex(_)
ByChunkIndex(S) ==
  IF S = {} THEN <<>>
  ELSE LET m == CHOOSE x \in S : \A y \in S : x.chunkIndex <= y.chunkIndex
       IN <<m>> \o ByChunkIndex(S \ {m})

SelectPending(w, userId, sourceName) ==
  ByChunkIndex({r \in w.table : /\ r.userId = userId
                                /\ r.sourceName = sourceName
                                /\ r.status = "pending"})

\* UPDATE training_chunks SET ... WHERE id = ?
UpdateRow(w, id, embedding) ==
  [w EXCEPT !.table =
     {IF r.id = id
        THEN [r EXCEPT !.status = "completed",
                       !.embedding = IF embedding = NullEmbedding
                                       THEN @ ELSE embedding]
        ELSE r : r \in @}]

\* the variant that does not mirror
idbPutSkipped(w, row, bytes) == w

\* idbPutChunk(chunk): put under key userId::sourceName::chunkIndex
idbPutChunk(w, row, bytes) ==
  [w EXCEPT !.idb =
     {c \in @ : ~SameKey(c, row.userId, row.sourceName, row.chunkIndex)}
     \cup {[id |-> row.id, userId |-> row.userId,
            sourceName |-> row.sourceName, chunkIndex |-> row.chunkIndex,
            text |-> row.text, embedding |-> bytes, status |-> "completed"]}]

\* one row of a batch: lengths[j] is the length of vectors[j] (0: missing)
ProcessRow(w, row, length, vecFails) ==
  LET f32 == IF length = 0 THEN NullEmbedding ELSE F32(length, row.text)
      bytes == toVecBlobFromEmbedding(f32)
  IN IF bytes = NullEmbedding
       THEN UpdateRow(w, row.id, NullEmbedding)
       ELSE idbPutChunk(
              vec0Upsert(UpdateRow(w, row.id, bytes), row.id, bytes, vecFails),
              row, bytes)

\* the batches of prepareWithProgress over pending[j .. stop]
RECURSIVE ProcessRows(_, _, _, _, _, _)
ProcessRows(w, pending, j, stop, lengths, vecFails) ==
  IF j > stop THEN w
  ELSE ProcessRows(ProcessRow(w, pending[j], lengths[j], vecFails),
                   pending, j + 1, stop, lengths, vecFails)

\* prepareWithProgress up to the SELECT of the pending rows
PreparePending(w0, userId, text, sourceName, clearExisting) ==
  LET w1 == getSQLite(w0)
      chunks == chunkTextWorker(text)
      w2 == IF clearExisting
              THEN idbDeleteUser(DeleteUserRows(w1, userId), userId)
              ELSE w1
      w3 == InsertPending(w2, userId, sourceName, chunks, 1)
  IN [w |-> w3, chunks |-> chunks,
      pending |-> SelectPending(w3, userId, sourceName)]

\* prepareWithProgress(userId, text, sourceName, clearExisting): lengths
\* has one entry per row embedded before the embedder or the pipeline
\* throws, or one per pending row when nothing throws
prepareWithProgress(w0, userId, text, sourceName, clear, lengths, vecFails) ==
  LET p == PreparePending(w0, userId, text, sourceName, clear)
  IN [w |-> ProcessRows(p.w, p.pending, 1, Len(lengths), lengths, vecFails),
      chunks |-> p.chunks,
      done |-> Len(lengths) = Len(p.pending)]

NoOp ==
  [op |-> "none", userId |-> "", sourceName |-> "", text |-> <<>>,
   chunks |-> <<>>, clearExisting |-> FALSE, done |-> FALSE,
   fresh |-> FALSE, repeated |-> FALSE, removed |-> 0]

Hosts == [opfs : BOOLEAN, vec0 : BOOLEAN]
DefaultHost == [opfs |-> TRUE, vec0 |-> TRUE]

StoreInit ==
  /\ host \in Hosts
  /\ db = "null"
  /\ table = {}
  /\ rowSeq = 0
  /\ vectors = {}
  /\ vec0Available = FALSE
  /\ idb = {}
  /\ ingests = 0
  /\ lastOp = NoOp

SetWorker(w) ==
  /\ db' = w.db
  /\ table' = w.table
  /\ rowSeq' = w.rowSeq
  /\ vectors' = w.vectors
  /\ vec0Available' = w.vec0Available
  /\ idb' = w.idb

SourceRows(rows, userId, sourceName) ==
  {r \in rows : r.userId = userId /\ r.sourceName = sourceName}

\* the worker handles { action: "prepare", payload }
Prepare ==
  /\ ingests < MaxIngests
  /\ \E userId \in Range(Users), sourceName \in Range(Sources),
        text \in Documents, clearExisting \in BOOLEAN :
       LET p == PreparePending(Worker, userId, text, sourceName,
                               clearExisting)
       IN \E stop \in 0 .. Len(p.pending) :
            \E lengths \in [1 .. stop -> OutLengths] \cup {NoData(stop)},
               vecFails \in {FALSE, p.w.vec0Available} :
              LET r == prepareWithProgress(Worker, userId, text, sourceName,
                                           clearExisting, lengths, vecFails)
              IN /\ SetWorker(r.w)
                 /\ lastOp' =
                      [op |-> "prepare", userId |-> userId,
                       sourceName |-> sourceName, text |-> text,
                       chunks |-> r.chunks, clearExisting |-> clearExisting,
                       done |-> r.done,
                       fresh |->
                         \/ clearExisting
                         \/ SourceRows(getSQLite(Worker).table, userId,
                                       sourceName) = {},
                       repeated |->
                         /\ lastOp.op = "prepare"
                         /\ lastOp.done
                         /\ lastOp.fresh
                         /\ lastOp.userId = userId
                         /\ lastOp.sourceName = sourceName
                         /\ lastOp.text = text,
                       removed |-> 0]
  /\ ingests' = ingests + 1
  /\ UNCHANGED host

\* the worker handles { action: "clear_user_data", payload }
ClearUserData ==
  /\ \E userId \in Range(Users) :
       /\ SetWorker(idbDeleteUser(DeleteUserRows(getSQLite(Worker), userId),
                                  userId))
       /\ lastOp' =
            [NoOp EXCEPT
               !.op = "clear_user_data", !.userId = userId,
               !.removed = Cardinality({r \in getSQLite(Worker).table :
                                          r.userId = userId})]
  /\ UNCHANGED <<host, ingests>>

\* the page is reloaded: the worker's module state is reset; the OPFS
\* database file and the IndexedDB mirror persist, an in-memory database
\* does not
Reload ==
  /\ db = "open"
  /\ db' = "null"
  /\ vec0Available' = FALSE
  /\ IF host.opfs
       THEN UNCHANGED <<table, rowSeq, vectors>>
       ELSE table' = {} /\ rowSeq' = 0 /\ vectors' = {}
  /\ lastOp' = [NoOp EXCEPT !.op = "reload"]
  /\ UNCHANGED <<host, idb, ingests>>

\* prepareWithProgress row by row. The handlers of self.onmessage are async
\* (src/unnamed/part_000 1639-1691): while an ingestion awaits the embedder
\* or idbPutChunk, the handler of another request runs. interleaved records
\* that a clear_user_data ran while the ingestion was in flight.
NoIngestion ==
  [status |-> "idle", userId |-> "", sourceName |-> "", pending |-> <<>>,
   j |-> 1, interleaved |-> FALSE]

IngInit == ing = NoIngestion

\* prepareWithProgress up to the await of the first batch
IngestStarts ==
  /\ ing.status = "idle"
  /\ ingests < MaxIngests
  /\ \E userId \in Range(Users), sourceName \in Range(Sources),
        text \in Documents, clearExisting \in BOOLEAN :
       LET p == PreparePending(Worker, userId, text, sourceName,
                               clearExisting)
       IN /\ SetWorker(p.w)
          /\ ing' = [NoIngestion EXCEPT
                       !.status = "embedding", !.userId = userId,
                       !.sourceName = sourceName, !.pending = p.pending,
                       !.interleaved = ing.interleaved]
          /\ lastOp' = [NoOp EXCEPT
                          !.op = "prepare", !.userId = userId,
                          !.sourceName = sourceName, !.text = text,
                          !.chunks = p.chunks,
                          !.clearExisting = clearExisting]
  /\ ingests' = ingests + 1
  /\ UNCHANGED host

\* the next row of the batch: UPDATE ... WHERE id = ?, vec0Upsert and
\* await idbPutChunk, for the row as the SELECT of the pending rows read it
IngestRow ==
  /\ ing.status = "embedding"
  /\ ing.j <= Len(ing.pending)
  /\ SetWorker(ProcessRow(Worker, ing.pending[ing.j], EMBEDDING_DIM, FALSE))
  /\ ing' = [ing EXCEPT !.j = @ + 1]
  /\ UNCHANGED <<host, ingests, lastOp>>

\* the loop ends: self.postMessage({ type: "done_prepare" })
IngestEnds ==
  /\ ing.status = "embedding"
  /\ ing.j > Len(ing.pending)
  /\ ing' = [ing EXCEPT !.status = "idle"]
  /\ lastOp' = [lastOp EXCEPT !.done = TRUE]
  /\ UNCHANGED <<host, db, table, rowSeq, vectors, vec0Available, idb,
                 ingests>>

\* clear_user_data is handled, between two steps of the ingestion too
ClearDuringIngest ==
  /\ ClearUserData
  /\ ing' = [ing EXCEPT !.interleaved = @ \/ ing.status = "embedding"]

\* the page is reloaded when no ingestion runs
ReloadWhenIdle ==
  /\ ing.status = "idle"
  /\ Reload
  /\ UNCHANGED ing

\* records a worker may find in the mirror when it starts: one written with
\* a vector of EMBEDDING_DIM floats, one without embedding, one with a vector
\* of another length
MirrorRecord(id, userId, chunkIndex, embedding) ==
  [id |-> id, userId |-> userId, sourceName |-> Sources[1],
   chunkIndex |-> chunkIndex, text |-> <<"x">>, embedding |-> embedding,
   status |-> "completed"]

FoundMirrors ==
  {{MirrorRecord(1, Users[1], 0, Blob(EMBEDDING_DIM * BYTES_PER_FLOAT, <<"x">>)),
    MirrorRecord(2, Users[1], 1, NullEmbedding),
    MirrorRecord(3, Users[1], 2, F32(EMBEDDING_DIM - 1, <<"x">>))}}

\* the worker starts on a host whose IndexedDB holds records of an earlier
\* session
FoundMirror ==
  /\ db = "null" /\ ingests = 0 /\ idb = {} /\ table = {}
  /\ lastOp = NoOp
  /\ idb' \in FoundMirrors
  /\ lastOp' = [NoOp EXCEPT !.op = "found_mirror"]
  /\ UNCHANGED <<host, db, table, rowSeq, vectors, vec0Available, ingests>>

\* ------------------------------------------------------------------------
\* Similarity search: searchVectors and getCompletedChunks of the training
\* worker, performSearchAndLLM of the page (src/services/llm-client.ts)
\* ------------------------------------------------------------------------
Queries == {<<"y">>}
TopKs == {1, 2}

\* the embedding model, abstractly: each symbol has a position on one axis
\* and the cosine of two texts (in hundredths) falls with their distance
SymbolCode(c) ==
  CASE c = "x" -> 1 [] c = "y" -> 2 [] c = "z" -> 3 [] c = "w" -> 4
    [] OTHER -> 0

RECURSIVE TextCode(_)
TextCode(t) == IF t = <<>> THEN 0 ELSE SymbolCode(Head(t)) + TextCode(Tail(t))

Abs(n) == IF n < 0 THEN -n ELSE n

\* computeDotProduct(queryVec, vec) of two normalised vectors, in hundredths
computeDotProduct(q, t) == 100 - 20 * Abs(TextCode(q) - TextCode(t))

\* the keyword boost: 0.15 for every query term the text includes
KEYWORD_BOOST == 15
KeywordHits(q, t) == Cardinality({c \in Range(q) : c \in Range(t)})

\* array.sort by ascending key, stable: equal keys keep their order ord
RECURSIVE SortByKey(_)
SortByKey(S) ==
  IF S = {} THEN <<>>
  ELSE LET m == CHOOSE x \in S :
                  \A y \in S : \/ x.key < y.key
                               \/ x.key = y.key /\ x.ord <= y.ord
       IN <<m.item>> \o SortByKey(S \ {m})

Take(seq, k) == SubSeq(seq, 1, IF k < Len(seq) THEN k ELSE Len(seq))

\* the rows the page gets back as search_results
IndexHit(row, distance) ==
  [id |-> row.id, text |-> row.text, sourceName |-> row.sourceName,
   chunkIndex |-> row.chunkIndex, score |-> 100 - distance]

\* searchVectors(userId, vector, topK) on the open database: the k nearest
\* rows of "vectors", joined to training_chunks on t.id = v.rowid
searchVectors(w, userId, qvec, topK) ==
  IF ~w.vec0Available THEN <<>>
  ELSE IF toVecBlobFromEmbedding(qvec) = NullEmbedding THEN <<>>
  ELSE LET nearest ==
             Take(SortByKey({[key |-> 100 - computeDotProduct(qvec.of,
                                                             v.embedding.of),
                              ord |-> v.rowid, item |-> v] : v \in w.vectors}),
                  topK)
           Joined(v) == {r \in w.table : r.id = v.rowid}
           hit(v) == LET r == CHOOSE r \in Joined(v) : TRUE
                     IN IndexHit(r, 100 - computeDotProduct(qvec.of,
                                                            v.embedding.of))
       IN [i \in 1 .. Cardinality({j \in 1 .. Len(nearest) :
                                     Joined(nearest[j]) # {}}) |->
             hit(nearest[CHOOSE j \in 1 .. Len(nearest) :
                   /\ Joined(nearest[j]) # {}
                   /\ Cardinality({h \in 1 .. j :
                                     Joined(nearest[h]) # {}}) = i])]

\* SELECT * FROM training_chunks WHERE userId = ? AND status = 'completed'
CompletedRows(w, userId) ==
  {r \in w.table : r.userId = userId /\ r.status = "completed"}

\* getCompletedChunks that maps a row without embedding to an empty array
getCompletedChunksLenient(w, userId) ==
  [ok |-> TRUE,
   rows |-> SortByKey({[key |-> r.id, ord |-> r.id,
                        item |-> [r EXCEPT !.embedding =
                                    IF @ = NullEmbedding
                                      THEN NumberArray(0, <<>>)
                                      ELSE NumberArray(ByteLength(@) \div
                                                       BYTES_PER_FLOAT, @.of)]] :
                       r \in CompletedRows(w, userId)})]

\* getCompletedChunks(userId): r.embedding.buffer of a row whose embedding
\* is NULL throws, and the worker replies { type: "error" }
getCompletedChunks(w, userId) ==
  IF \E r \in CompletedRows(w, userId) : r.embedding = NullEmbedding
    THEN [ok |-> FALSE, rows |-> <<>>]
    ELSE [ok |-> TRUE,
          rows |-> SortByKey({[key |-> r.id, ord |-> r.id,
                               item |-> [r EXCEPT !.embedding =
                                           NumberArray(ByteLength(@) \div
                                                       BYTES_PER_FLOAT, @.of)]] :
                              r \in CompletedRows(w, userId)})]

\* the score of one scanned candidate
ScanScore(q, cand) ==
  IF cand.embedding.n = 0 THEN -100
  ELSE computeDotProduct(q, cand.embedding.of)
       + KeywordHits(q, cand.text) * KEYWORD_BOOST

ScoredRow(q, cand) ==
  [id |-> cand.id, text |-> cand.text, sourceName |-> cand.sourceName,
   chunkIndex |-> cand.chunkIndex, score |-> ScanScore(q, cand)]

\* localRows.map(score).sort((a, b) => b.score - a.score)
ScanSorted(q, rows) ==
  SortByKey({[key |-> -ScanScore(q, rows[i]), ord |-> i,
              item |-> ScoredRow(q, rows[i])] : i \in DOMAIN rows})

\* the documents of users/<userId>/trainingVectors the remote store returns
RemoteDoc(i, text) ==
  [id |-> 0, text |-> text, sourceName |-> "remote", chunkIndex |-> i,
   embedding |-> NumberArray(EMBEDDING_DIM, text)]
RemoteStores == {<<>>, <<RemoteDoc(0, <<"y">>), RemoteDoc(1, <<"w">>)>>}

\* the Firestore branch: sort by score, then the first two keyword matches
\* in front, one entry per sourceName-chunkIndex, the first topK
RemoteResults(q, docs, topK) ==
  LET scored == ScanSorted(q, docs)
      matches == SelectSeq(scored, LAMBDA r : KeywordHits(q, r.text) > 0)
      merged == Take(matches, 2) \o Take(scored, topK)
      firstOf(i) == \A j \in 1 .. i - 1 :
                      merged[j].chunkIndex # merged[i].chunkIndex
      kept == {i \in DOMAIN merged : firstOf(i)}
  IN Take(SortByKey({[key |-> i, ord |-> i,
                      item |-> [merged[CHOOSE j \in DOMAIN merged :
                                  j >= i /\ merged[j].chunkIndex
                                            = merged[i].chunkIndex
                                  /\ \A h \in j + 1 .. Len(merged) :
                                       merged[h].chunkIndex
                                       # merged[i].chunkIndex]
                                  EXCEPT !.id = 0]] : i \in kept}), topK)

NoReply ==
  [op |-> "none", userId |-> "", q |-> <<>>, topK |-> 0, ok |-> FALSE,
   path |-> <<>>, indexed |-> FALSE, byIndex |-> <<>>, scanned |-> <<>>,
   results |-> <<>>,
   source |-> "", rows |-> <<>>]

\* performSearchAndLLM reading the remote store whatever the local paths gave
performSearchRemoteAlways(w, userId, q, qlen, topK, remote) ==
  [NoReply EXCEPT
     !.op = "search", !.userId = userId, !.q = q, !.topK = topK, !.ok = TRUE,
     !.path = <<"index", "scan", "remote">>,
     !.indexed = w.vec0Available,
     !.byIndex = searchVectors(w, userId, F32(qlen, q), topK),
     !.scanned = LET listing == getCompletedChunks(w, userId)
                 IN IF listing.ok THEN ScanSorted(q, listing.rows) ELSE <<>>,
     !.results = RemoteResults(q, remote, topK),
     !.source = "firestore"]

\* performSearchAndLLM(userId, queryStr, topK) up to the call of the LLM,
\* which takes the results and changes none of them; w is the open database
performSearchAndLLM(w, userId, q, qlen, topK, remote) ==
  LET byIndex == searchVectors(w, userId, F32(qlen, q), topK)
      listing == IF byIndex = <<>> THEN getCompletedChunks(w, userId)
                 ELSE [ok |-> FALSE, rows |-> <<>>]
      scanned == IF listing.ok THEN ScanSorted(q, listing.rows) ELSE <<>>
      local == IF byIndex # <<>> THEN byIndex ELSE Take(scanned, topK)
  IN [NoReply EXCEPT
        !.op = "search", !.userId = userId, !.q = q, !.topK = topK,
        !.ok = TRUE,
        !.path = <<"index">>
                 \o (IF byIndex = <<>> THEN <<"scan">> ELSE <<>>)
                 \o (IF local = <<>> THEN <<"remote">> ELSE <<>>),
        !.indexed = w.vec0Available,
        !.byIndex = byIndex,
        !.scanned = scanned,
        !.results = IF local # <<>> THEN local
                    ELSE RemoteResults(q, remote, topK),
        !.source = IF local # <<>> THEN "local" ELSE "firestore"]

\* the page runs one query: embed_query, search_vectors and, when needed,
\* get_upload_data, with no other request of the worker in between; the
\* remote store is consulted only by the Firestore branch
PerformSearch ==
  /\ reply = NoReply
  /\ \E userId \in Range(Users), q \in Queries, topK \in TopKs,
        qlen \in OutLengths \cup {0} :
       IF qlen = 0
         THEN /\ reply' = [NoReply EXCEPT !.op = "search", !.userId = userId,
                                          !.q = q, !.topK = topK]
              /\ UNCHANGED <<db, table, rowSeq, vectors, vec0Available, idb>>
         ELSE /\ SetWorker(getSQLite(Worker))
              /\ \E remote \in RemoteStores :
                   reply' = performSearchAndLLM(getSQLite(Worker), userId, q,
                                                qlen, topK, remote)
  /\ UNCHANGED <<host, ingests, lastOp>>

\* the worker handles { action: "get_upload_data", payload }
GetUploadData ==
  /\ reply = NoReply
  /\ \E userId \in Range(Users) :
       LET listing == getCompletedChunks(getSQLite(Worker), userId)
       IN reply' = [NoReply EXCEPT !.op = "get_upload_data",
                                   !.userId = userId, !.ok = listing.ok,
                                   !.rows = listing.rows]
  /\ SetWorker(getSQLite(Worker))
  /\ UNCHANGED <<host, ingests, lastOp>>

\* the page has read the reply
ReplyRead ==
  /\ reply # NoReply
  /\ reply' = NoReply
  /\ UNCHANGED storeVars

\* ------------------------------------------------------------------------
\* getEmbedder: the training worker (src/unnamed/part_000 1281-1364), the
\* embeddings pipeline (src/unnamed/part_004 52-70), the training page
\* (src/unnamed/part_000 239-266), the archival worker
\* (src/components/chat-widget.ts 391-400)
\* ------------------------------------------------------------------------
Loaders == {"worker", "pipeline", "training", "archival"}

NoEmbedder ==
  [promise |-> "null", loads |-> 0, called |-> FALSE, afterFailure |-> FALSE,
   startedLoad |-> FALSE]

\* getEmbedder(): if (!embedderPromise) embedderPromise = <load>; return
\* embedderPromise. loads counts the loads begun since construction
getEmbedder(e) ==
  [e EXCEPT !.promise = IF @ = "null" THEN "pending" ELSE @,
            !.loads = IF e.promise = "null" THEN 1 ELSE @,
            !.called = TRUE,
            !.afterFailure = e.promise = "rejected",
            !.startedLoad = e.promise = "null"]

EmbedderInit == embedder = [m \in Loaders |-> NoEmbedder]

\* some caller of module m calls getEmbedder()
GetEmbedderCall ==
  \E m \in Loaders : embedder' = [embedder EXCEPT ![m] = getEmbedder(@)]

\* pipeline("feature-extraction", MODEL_ID, options) settles
LoadSettles ==
  \E m \in Loaders, outcome \in {"fulfilled", "rejected"} :
    /\ embedder[m].promise = "pending"
    /\ embedder' = [embedder EXCEPT ![m].promise = outcome]

\* getEmbedder call by call. The training page (src/unnamed/part_000
\* 239-266) awaits checkWebGPU() between the test of embedderPromise and its
\* assignment; the training worker (1281-1364) and the embeddings pipeline
\* (src/unnamed/part_004 52-70) assign the promise of an async function at
\* once and probe and construct inside it.
ProbingLoaders == {"training", "worker", "pipeline"}

NoLoad ==
  [embedderPromise |-> 0, probes |-> 0, pipelines |-> 0,
   pc |-> [c \in Callers |-> "idle"], got |-> [c \in Callers |-> 0]]

LdInit == ld = [m \in ProbingLoaders |-> NoLoad]

\* does module m assign embedderPromise in the step that tested it?
AssignsAtOnce(m) == m # "training"

\* pipeline("feature-extraction", MODEL_ID, options) is constructed and its
\* promise assigned; the caller returns embedderPromise
Construct(l, c) ==
  [l EXCEPT !.pipelines = @ + 1, !.embedderPromise = l.pipelines + 1,
            !.got[c] = l.pipelines + 1, !.pc[c] = "returned"]

\* getEmbedder() of module m up to its first await
getEmbedderStart(l, m, c) ==
  IF l.embedderPromise # 0
    THEN [l EXCEPT !.got[c] = l.embedderPromise, !.pc[c] = "returned"]
    ELSE IF AssignsAtOnce(m)
      THEN Construct([l EXCEPT !.probes = @ + 1], c)
      ELSE [l EXCEPT !.probes = @ + 1, !.pc[c] = "probing"]

GetEmbedderStarts ==
  \E m \in ProbingLoaders, c \in Callers :
    /\ ld[m].pc[c] = "idle"
    /\ ld' = [ld EXCEPT ![m] = getEmbedderStart(@, m, c)]

\* const isWebGPU = await checkWebGPU() resumes in the training page
ProbeResumes ==
  \E c \in Callers :
    /\ ld["training"].pc[c] = "probing"
    /\ ld' = [ld EXCEPT !["training"] = Construct(@, c)]

\* the caller is done with the pipeline and may call again
CallerDone ==
  \E m \in ProbingLoaders, c \in Callers :
    /\ ld[m].pc[c] = "returned"
    /\ ld' = [ld EXCEPT ![m].pc[c] = "idle"]

\* ------------------------------------------------------------------------
\* embedChunksWithConcurrency (src/unnamed/part_000 155-177): workers share
\* the cursor nextIndex; each awaits embedText, onProgress and a zero timer
\* per item. claims counts the times an index was taken, order lists the
\* indices as their embeddings complete.
\* ------------------------------------------------------------------------
EMBED_CONCURRENCY == 2

MaxItems == 4

PoolWorkers == 1 .. EMBED_CONCURRENCY

PoolChunks == UNION {[1 .. n -> {"a", "b"}] : n \in 0 .. MaxItems}

\* the vector embedText computes for a chunk
VectorOf(chunk) == <<"vector", chunk>>

NoPool ==
  [status |-> "idle", chunks |-> <<>>, nextIndex |-> 0, completed |-> 0,
   results |-> <<>>, claims |-> <<>>, inflight |-> {}, order |-> <<>>,
   pc |-> [w \in PoolWorkers |-> "done"],
   index |-> [w \in PoolWorkers |-> 0]]

PoolInit == pool = NoPool

\* the variant of the cursor that moves by two
SkipsOne(index) == index + 2

\* nextIndex += 1
CursorAfter(index) == index + 1

\* the variant of a worker that claims while its embedText is pending
ClaimsWhilePending(p, w) == p.pc[w] \in {"yield", "embedding"}

\* a worker is at the head of its loop after the awaits of the previous item
AtLoopHead(p, w) == p.pc[w] = "yield"

\* while (nextIndex < chunks.length) { const index = nextIndex;
\* nextIndex += 1; ... embedText(embedder, chunks[index]) up to its await.
\* Indices are those of the code, from 0; the sequences are 1-based.
WorkerTest(p, w) ==
  IF p.nextIndex < Len(p.chunks)
    THEN [p EXCEPT !.pc[w] = "embedding",
                   !.index[w] = p.nextIndex,
                   !.nextIndex = CursorAfter(p.nextIndex),
                   !.claims[p.nextIndex + 1] = @ + 1,
                   !.inflight = @ \cup {p.nextIndex}]
    ELSE [p EXCEPT !.pc[w] = "done"]

RECURSIVE StartWorkers(_, _)
\* Array.from({ length: EMBED_CONCURRENCY }, () => worker()): each worker
\* runs to its first await before the next one starts
StartWorkers(p, w) ==
  IF w > EMBED_CONCURRENCY THEN p ELSE StartWorkers(WorkerTest(p, w), w + 1)

\* embedChunksWithConcurrency(embedder, chunks, onProgress) up to
\* await Promise.all(workers)
EmbedChunksCall ==
  /\ pool.status = "idle"
  /\ \E chunks \in PoolChunks :
       pool' = StartWorkers(
                 [NoPool EXCEPT !.status = "running", !.chunks = chunks,
                                !.results = [i \in DOMAIN chunks |-> "empty"],
                                !.claims = [i \in DOMAIN chunks |-> 0]], 1)

\* await embedText(embedder, chunks[index]) resumes: results[index] = vector;
\* completed += 1; the worker awaits onProgress and the zero timer
EmbedTextResolves ==
  \E w \in PoolWorkers :
    /\ pool.pc[w] = "embedding"
    /\ pool' = [pool EXCEPT
                  !.results[pool.index[w] + 1] =
                     VectorOf(pool.chunks[pool.index[w] + 1]),
                  !.completed = @ + 1,
                  !.order = Append(@, pool.index[w]),
                  !.inflight = @ \ {pool.index[w]},
                  !.pc[w] = "yield"]

\* embedText throws: the worker's promise rejects and so does Promise.all,
\* while the other workers go on
EmbedTextRejects ==
  \E w \in PoolWorkers :
    /\ pool.pc[w] = "embedding"
    /\ pool' = [pool EXCEPT !.inflight = @ \ {pool.index[w]},
                            !.pc[w] = "done",
                            !.status = "rejected"]

\* the awaits after an item resume and the loop tests the cursor again
WorkerResumes ==
  \E w \in PoolWorkers :
    /\ AtLoopHead(pool, w)
    /\ pool' = WorkerTest(pool, w)

\* await Promise.all(workers) resumes; return results
EmbedChunksReturns ==
  /\ pool.status = "running"
  /\ \A w \in PoolWorkers : pool.pc[w] = "done"
  /\ pool' = [pool EXCEPT !.status = "returned"]

\* ------------------------------------------------------------------------
\* The batching loop of prepareWithProgress (src/unnamed/part_000
\* 1472-1572) and getInitialBatchSize (777-785). A latency is kept as the
\* pair of the batch's duration and its length, and latencies are compared
\* by cross-multiplication; the rounding of the doubles at an exact 10% or
\* 25% change is not modelled.
\* ------------------------------------------------------------------------
EMBED_BATCH_SIZE_MAX == 16

MaxPending == 56

Backends == {"webgpu", "wasm"}

\* t1 - t0 of a batch, in milliseconds
Durations == {0, 10, 20, 40}

NoLatency == [ms |-> 0, items |-> 0]

NoBatching ==
  [status |-> "idle", backend |-> "wasm", total |-> 0, i |-> 0,
   batchSize |-> 1, prevMsPerItem |-> NoLatency, processed |-> <<>>,
   used |-> 1]

BtInit == bt = NoBatching

getInitialBatchSize(lastUsedBackend, totalCount) ==
  IF lastUsedBackend = "webgpu"
    THEN IF totalCount >= 32 THEN 16
         ELSE IF totalCount >= 16 THEN 8
         ELSE IF totalCount >= 8 THEN 4
         ELSE 2
    ELSE 1

\* msPerItem < prevMsPerItem * 0.9
Improved(msPerItem, prev) ==
  10 * msPerItem.ms * prev.items < 9 * prev.ms * msPerItem.items

\* msPerItem > prevMsPerItem * 1.25
Regressed(msPerItem, prev) ==
  4 * msPerItem.ms * prev.items > 5 * prev.ms * msPerItem.items

\* the variant that triples
Tripled(batchSize) == batchSize * 3

\* Math.min(EMBED_BATCH_SIZE_MAX, batchSize * 2)
Doubled(batchSize) == Min(EMBED_BATCH_SIZE_MAX, batchSize * 2)

\* Math.max(1, Math.floor(batchSize / 2))
Halved(batchSize) == Max(1, batchSize \div 2)

\* the tuning at the end of a batch
Tuned(b, msPerItem, remaining) ==
  IF b.backend = "webgpu" /\ b.prevMsPerItem # NoLatency
    THEN IF /\ Improved(msPerItem, b.prevMsPerItem)
            /\ b.batchSize < EMBED_BATCH_SIZE_MAX
            /\ remaining >= b.batchSize * 2
           THEN Doubled(b.batchSize)
           ELSE IF Regressed(msPerItem, b.prevMsPerItem) /\ b.batchSize > 1
             THEN Halved(b.batchSize)
             ELSE b.batchSize
    ELSE b.batchSize

\* let batchSize = getInitialBatchSize(pending.length); let i = 0
BatchingStarts ==
  /\ bt.status = "idle"
  /\ \E backend \in Backends, total \in 0 .. MaxPending :
       bt' = [NoBatching EXCEPT
                !.status = "running", !.backend = backend, !.total = total,
                !.batchSize = getInitialBatchSize(backend, total),
                !.processed = [r \in 1 .. total |-> 0]]

\* one turn of while (i < pending.length): the batch pending.slice(i, i +
\* batchSize) is embedded and its rows completed, the size is tuned,
\* prevMsPerItem = msPerItem; i += batch.length
BatchDone ==
  /\ bt.status = "running"
  /\ bt.i < bt.total
  /\ \E ms \in Durations :
       LET length == Min(bt.batchSize, bt.total - bt.i)
           msPerItem == [ms |-> ms, items |-> Max(1, length)]
           remaining == bt.total - (bt.i + length)
       IN bt' = [bt EXCEPT
                   !.processed = [r \in DOMAIN @ |->
                                    IF r > bt.i /\ r <= bt.i + length
                                      THEN @[r] + 1 ELSE @[r]],
                   !.used = bt.batchSize,
                   !.batchSize = Tuned(bt, msPerItem, remaining),
                   !.prevMsPerItem = msPerItem,
                   !.i = bt.i + length]

\* the loop ends: self.postMessage({ type: "done_prepare" })
BatchingEnds ==
  /\ bt.status = "running"
  /\ bt.i >= bt.total
  /\ bt' = [bt EXCEPT !.status = "done"]

\* ------------------------------------------------------------------------
\* The chat widget (src/components/chat-widget.ts): handleSubmit 89-107,
\* loadHistory 64-84, sendMessage 153-191. inFlight counts the
\* session.sendMessage calls that have not settled; raced records that a
\* submit passed the guard while another was awaiting loadHistory; last is
\* how the latest step ended a sendMessage, if it did.
\* ------------------------------------------------------------------------
MaxSubmits == 3

Submits == 1 .. MaxSubmits

WgInit ==
  wg = [isProcessing |-> FALSE, historyLoaded |-> FALSE, input |-> "",
        pc |-> [h \in Submits |-> "idle"], inFlight |-> 0, raced |-> FALSE,
        last |-> "none"]

\* the user types into the input field
UserTypes ==
  /\ wg.input = ""
  /\ wg' = [wg EXCEPT !.input = "text", !.last = "none"]

\* sendMessage(content) up to await getSession(): isProcessing = true
sendMessageStart(w, h) ==
  [w EXCEPT !.isProcessing = TRUE, !.pc[h] = "session"]

\* handleSubmit up to its first await: if (!content || isProcessing)
\* return; if (!historyLoaded) await loadHistory(); inputField.value = "";
\* await sendMessage(content)
HandleSubmit ==
  \E h \in Submits :
    /\ wg.pc[h] = "idle"
    /\ wg' = IF wg.input = "" \/ wg.isProcessing
               THEN [wg EXCEPT !.last = "none"]
               ELSE IF ~wg.historyLoaded
                 THEN [wg EXCEPT !.pc[h] = "loading", !.last = "none",
                                 !.raced = @ \/ \E g \in Submits :
                                                  wg.pc[g] = "loading"]
                 ELSE sendMessageStart(
                        [wg EXCEPT !.input = "", !.last = "none"], h)

\* await loadHistory() resumes; loadHistory sets historyLoaded unless
\* getSession or getHistory threw
LoadHistoryDone ==
  \E h \in Submits, loaded \in BOOLEAN :
    /\ wg.pc[h] = "loading"
    /\ wg' = sendMessageStart(
               [wg EXCEPT !.historyLoaded = @ \/ loaded, !.input = "",
                          !.last = "none"], h)

\* the finally of sendMessage: isProcessing = false
sendMessageFinally(w, h, how) ==
  [w EXCEPT !.isProcessing = FALSE, !.pc[h] = "idle", !.last = how]

\* await getSession() resumes: session.sendMessage is called, or getSession
\* threw and the catch and the finally run
SessionReady ==
  \E h \in Submits, ok \in BOOLEAN :
    /\ wg.pc[h] = "session"
    /\ wg' = IF ok
               THEN [wg EXCEPT !.pc[h] = "sending", !.inFlight = @ + 1,
                               !.last = "none"]
               ELSE sendMessageFinally(wg, h, "noSession")

\* session.sendMessage settles, fulfilled or rejected
SendSettles ==
  \E h \in Submits :
    /\ wg.pc[h] = "sending"
    /\ wg' = sendMessageFinally([wg EXCEPT !.inFlight = @ - 1], h, "settled")

\* ------------------------------------------------------------------------
\* Calls from the page to the workers (src/services/llm-client.ts): the
\* archival bridge, lines 170-257, and the vector-search calls, lines
\* 420-597
\* ------------------------------------------------------------------------
\* calls made on each side in one behaviour
MaxCalls == 2

CallIds == 1 .. MaxCalls
BridgeTypes == {"storeChunks", "search"}
VectorActions == {"prepare", "search_vectors"}

\* getResponseType(requestType)
getResponseType(type) ==
  CASE type = "storeChunks" -> "storeComplete"
    [] type = "search" -> "searchComplete"
    [] OTHER -> "unknown"

\* type.endsWith("Error") or type === "error"
IsErrorType(type) == type \in {"error", "storeError", "searchError"}

\* what the archival worker posts after a request of this type
WorkerReplies(type) ==
  CASE type = "storeChunks" -> {"storeComplete"}
    [] type = "search" -> {"searchComplete", "searchError"}
    [] OTHER -> {}

\* the message type each vector-search call waits for
VectorResponseType(action) ==
  CASE action = "prepare" -> "done_prepare"
    [] action = "search_vectors" -> "search_results"
    [] OTHER -> "unknown"

BridgeInit ==
  bridge = [callId |-> 0, pending |-> <<>>, inbox |-> <<>>,
            outcome |-> [i \in CallIds |-> "none"],
            vcalls |-> 0, listeners |-> {}, vinbox |-> <<>>,
            voutcome |-> [i \in CallIds |-> "none"],
            sent |-> [i \in CallIds |-> "none"],
            by |-> [i \in CallIds |-> 0],
            vby |-> [i \in CallIds |-> 0],
            overlap |-> FALSE]

\* the sequence without its k-th element
Without(seq, k) == SubSeq(seq, 1, k - 1) \o SubSeq(seq, k + 1, Len(seq))

\* workerCall(type, payload)
WorkerCall ==
  /\ bridge.callId < MaxCalls
  /\ \E type \in BridgeTypes :
       bridge' = [bridge EXCEPT
                    !.callId = @ + 1,
                    !.pending = Append(@, [id |-> bridge.callId + 1,
                                           type |-> type]),
                    !.inbox = Append(@, [id |-> bridge.callId + 1,
                                         type |-> type]),
                    !.outcome[bridge.callId + 1] = "pending",
                    !.sent[bridge.callId + 1] = type,
                    !.overlap = @ \/ \E i \in DOMAIN bridge.pending :
                                       bridge.pending[i].type = type]

\* worker.onmessage: the first pending callback, in insertion order, whose
\* expected type the message has, or any pending callback when the message
\* is an error, is settled and removed. The worker's handlers are async and
\* interleave at their awaits, so the request answered is any of those it
\* has received; by[i] is the request whose response settled call i.
Matches(callback, type) ==
  type = getResponseType(callback.type) \/ IsErrorType(type)

WorkerAnswers ==
  \E k \in DOMAIN bridge.inbox :
    \E type \in WorkerReplies(bridge.inbox[k].type) :
       LET hits == {i \in DOMAIN bridge.pending :
                      Matches(bridge.pending[i], type)}
           first == CHOOSE i \in hits : \A j \in hits : i <= j
       IN bridge' =
            [bridge EXCEPT
               !.inbox = Without(@, k),
               !.by = IF hits = {} THEN @
                      ELSE [@ EXCEPT ![bridge.pending[first].id] =
                              bridge.inbox[k].id],
               !.pending = IF hits = {} THEN @
                           ELSE SelectSeq(@, LAMBDA c :
                                             c.id # bridge.pending[first].id),
               !.outcome = IF hits = {} THEN @
                           ELSE [@ EXCEPT ![bridge.pending[first].id] =
                                   IF IsErrorType(type) THEN "rejected"
                                   ELSE "resolved"]]

\* the setTimeout callback of workerCall, 60 seconds after the call
WorkerTimeout ==
  \E i \in DOMAIN bridge.pending :
    bridge' = [bridge EXCEPT
                 !.pending = SelectSeq(@, LAMBDA c :
                                           c.id # bridge.pending[i].id),
                 !.outcome[bridge.pending[i].id] = "rejected"]

\* prepareLocalDatabase, searchLocalVectors and the calls like them: a
\* message listener and a postMessage, no timer
VectorCall ==
  /\ bridge.vcalls < MaxCalls
  /\ \E action \in VectorActions :
       bridge' = [bridge EXCEPT
                    !.vcalls = @ + 1,
                    !.listeners = @ \cup {[id |-> bridge.vcalls + 1,
                                           action |-> action]},
                    !.vinbox = Append(@, [id |-> bridge.vcalls + 1,
                                          action |-> action]),
                    !.voutcome[bridge.vcalls + 1] = "pending"]

\* the training worker posts the reply of one of its requests, or
\* { type: "error" }; every listener sees the message
VectorAnswers ==
  \E k \in DOMAIN bridge.vinbox :
    \E type \in {VectorResponseType(bridge.vinbox[k].action), "error"} :
       LET settled == {l \in bridge.listeners :
                         type \in {VectorResponseType(l.action), "error"}}
       IN bridge' =
            [bridge EXCEPT
               !.vinbox = Without(@, k),
               !.vby = [i \in CallIds |->
                          IF \E l \in settled : l.id = i
                            THEN bridge.vinbox[k].id ELSE @[i]],
               !.listeners = @ \ settled,
               !.voutcome = [i \in CallIds |->
                               IF \E l \in settled : l.id = i
                                 THEN IF type = "error" THEN "rejected"
                                      ELSE "resolved"
                                 ELSE @[i]]]

\* ------------------------------------------------------------------------
\* getRelevantContext (src/services/llm-client.ts 316-340)
\* ------------------------------------------------------------------------
\* results searchContext returns for one query
MaxResults == 2

\* the separator "\n\n---\n\n"
Separator == <<"\n", "\n", "-", "-", "-", "\n", "\n">>
IsSpace(c) == c \in {"\n", " "}

RECURSIVE TrimStart(_)
TrimStart(t) ==
  IF t # <<>> /\ IsSpace(Head(t)) THEN TrimStart(Tail(t)) ELSE t

RECURSIVE TrimEnd(_)
TrimEnd(t) ==
  IF t # <<>> /\ IsSpace(t[Len(t)]) THEN TrimEnd(SubSeq(t, 1, Len(t) - 1))
  ELSE t

\* String.prototype.trim
Trim(t) == TrimEnd(TrimStart(t))

\* r.score > 0.3, scores in hundredths
MIN_RELEVANCE == 30

\* the loop of getRelevantContext: 2 * length > 7 * maxTokens is
\* length > maxTokens * 3.5
RECURSIVE ContextLoop(_, _, _)
ContextLoop(context, relevant, maxTokens) ==
  IF relevant = <<>> THEN context
  ELSE IF 2 * (Len(context) + Len(Head(relevant).text)) > 7 * maxTokens
    THEN context
  ELSE ContextLoop(context \o Head(relevant).text \o Separator,
                   Tail(relevant), maxTokens)

\* getRelevantContext(query, maxTokens) on the results of searchContext
getRelevantContext(results, maxTokens) ==
  LET relevant == SelectSeq(results, LAMBDA r : r.score > MIN_RELEVANCE)
      context == Trim(ContextLoop(<<>>, relevant, maxTokens))
  IN IF results = <<>> \/ relevant = <<>> \/ context = <<>> THEN NoContext
     ELSE context

ContextTexts == {<<"a">>, <<"a", "b", "c">>, <<"a", " ", "b", "c", "d", "e", "f">>}
ContextScores == {20, 50}
ContextBudgets == {1, 2, 4}

NoCtx == [called |-> FALSE, results |-> <<>>, maxTokens |-> 0, out |-> <<>>]

\* the page calls getRelevantContext(query, maxTokens)
GetRelevantContextCall ==
  \E n \in 0 .. MaxResults, maxTokens \in ContextBudgets :
    \E results \in [1 .. n -> [text : ContextTexts, score : ContextScores]] :
      ctx' = [called |-> TRUE, results |-> results, maxTokens |-> maxTokens,
              out |-> getRelevantContext(results, maxTokens)]

\* ------------------------------------------------------------------------
\* chunkText of the training page (src/unnamed/part_000, lines 99-153)
\* ------------------------------------------------------------------------
\* A text is a sequence of blocks of BlockLen characters: "a" is BlockLen
\* lowercase letters, "A" the same letters in uppercase, "s" is letters
\* closed by a full stop and one space.
BlockLen == 30
MaxBlocks == 6
\* texts with sentence ends and texts with uppercase passages
SegTexts == UNION {[1 .. n -> {"a", "s"}] \cup [1 .. n -> {"a", "A"}] : n \in 0 .. MaxBlocks}
SegMaxLens == {2 * BlockLen, 4 * BlockLen, 6 * BlockLen}
SegOverlaps == {0, 2 * BlockLen, 4 * BlockLen}

MAX_CHUNKS == 500
DEDUP_MIN_LENGTH == 80
SENTENCE_WINDOW == 120
SENTENCE_MIN_ADVANCE == 100


\* length of a string of blocks after trim(): the space closing a final "s"
\* block is dropped
TrimmedLength(blocks) ==
  IF blocks = <<>> THEN 0
  ELSE Len(blocks) * BlockLen - (IF blocks[Len(blocks)] = "s" THEN 1 ELSE 0)

\* normalizeText: the blocks hold no tab, no double space and no newline, so
\* only trim() acts; the result is the blocks, of length TrimmedLength
normalizeText(text) == text

\* clean.slice(start, end).trim() for start on a block boundary
SliceOf(clean, start, end) ==
  SubSeq(clean, start \div BlockLen + 1, (end + BlockLen - 1) \div BlockLen)

Lower(c) == IF c = "A" THEN "a" ELSE c

\* normalizeForDedup: whitespace collapsed, trimmed, lowercased
normalizeForDedup(slice) == [i \in DOMAIN slice |-> Lower(slice[i])]

\* findSentenceBoundary: the last full stop followed by a space inside the
\* window of SENTENCE_WINDOW characters before end
findSentenceBoundary(clean, start, end) ==
  LET windowStart == Max(start, end - SENTENCE_WINDOW)
      stops == {i \in DOMAIN clean : /\ clean[i] = "s"
                                     /\ i * BlockLen - 2 >= windowStart
                                     /\ i * BlockLen <= end}
      last == CHOOSE i \in stops : \A j \in stops : j <= i
      boundary == last * BlockLen
  IN IF stops = {} THEN end
     ELSE IF boundary > start + SENTENCE_MIN_ADVANCE THEN boundary ELSE end

\* start = Math.max(0, end - overlap), with the mutant that skips text
NextStartSkipping(end, overlap) == end + overlap + 1
NextStart(end, overlap) == Max(0, end - overlap)

\* the test that lets a non-empty slice into chunks, with the mutant that
\* pushes every slice
ShouldPushAlways(slice, seen) == TRUE
ShouldPush(slice, seen) ==
  \/ TrimmedLength(slice) < DEDUP_MIN_LENGTH
  \/ normalizeForDedup(slice) \notin seen

\* windows records the [start, end) cut by the passes, a window cut again by
\* the next pass once (observation only)
NoSeg == [pc |-> "idle", clean |-> <<>>, maxLen |-> 0, overlap |-> 0, start |-> 0, chunks |-> <<>>, seen |-> {}, windows |-> <<>>]

SegInit == seg = NoSeg

\* chunkText(text, maxLen, overlap) up to the loop
ChunkTextCall ==
  /\ seg.pc \in {"idle", "taken"}
  /\ \E text \in SegTexts, maxLen \in SegMaxLens, overlap \in SegOverlaps :
       LET clean == normalizeText(text)
       IN seg' = [NoSeg EXCEPT !.pc = IF clean = <<>> THEN "done" ELSE "loop",
                               !.clean = clean, !.maxLen = maxLen,
                               !.overlap = overlap]

\* one pass of the while loop
ChunkTextStep ==
  /\ seg.pc = "loop"
  /\ seg.start < TrimmedLength(seg.clean)
  /\ Len(seg.chunks) < MAX_CHUNKS
  /\ LET length == TrimmedLength(seg.clean)
         end0 == Min(seg.start + seg.maxLen, length)
         end == IF end0 < length
                  THEN findSentenceBoundary(seg.clean, seg.start, end0)
                  ELSE end0
         slice == SliceOf(seg.clean, seg.start, end)
         key == normalizeForDedup(slice)
         pushed == slice # <<>> /\ ShouldPush(slice, seg.seen)
     IN seg' = [seg EXCEPT
                  !.windows = IF @ # <<>> /\ @[Len(@)] = [start |-> seg.start, end |-> end]
                                THEN @
                                ELSE Append(@, [start |-> seg.start, end |-> end]),
                  !.chunks = IF pushed THEN Append(@, slice) ELSE @,
                  !.seen = IF slice # <<>> /\ TrimmedLength(slice) >= DEDUP_MIN_LENGTH
                             THEN @ \cup {key} ELSE @,
                  !.pc = IF end = length THEN "done" ELSE "loop",
                  !.start = IF end = length THEN @
                            ELSE NextStart(end, seg.overlap)]

\* the loop condition fails: return chunks
ChunkTextReturn ==
  /\ seg.pc = "loop"
  /\ ~(seg.start < TrimmedLength(seg.clean) /\ Len(seg.chunks) < MAX_CHUNKS)
  /\ seg' = [seg EXCEPT !.pc = "done"]

\* the caller has taken the chunks of the finished call
ChunksTaken ==
  /\ seg.pc = "done"
  /\ seg' = [NoSeg EXCEPT !.pc = "taken"]

\* ------------------------------------------------------------------------
\* getSQLite step by step (src/unnamed/part_000, lines 1140-1279), with
\* rehydrateFromIdb (975-1053), vec0Upsert (798-825) and searchVectors
\* (1574-1606) as far as they touch db, dbPromise, rehydratePromise and
\* vec0Available
\* ------------------------------------------------------------------------
\* initializations begun in one behaviour
MaxInits == 2
Inits == 1 .. MaxInits
\* request handlers running at the same time
Handlers == {1, 2}
\* what the sqlite build does with vec0
Vec0Hosts == {"ok", "createFails", "selfTestFails"}

NoHandler == [pc |-> "idle", on |-> 0, handle |-> 0]

WkInit ==
  wk = [db |-> 0, dbPromise |-> 0, inits |-> [k \in Inits |-> "unused"],
        opens |-> 0, rehydratePromise |-> "null", scans |-> 0,
        vec0Available |-> FALSE, host |-> "unknown",
        handlers |-> [h \in Handlers |-> NoHandler],
        marked |-> FALSE, lateIndexUse |-> FALSE, earlyUse |-> FALSE,
        queryThrew |-> FALSE, queriedAfterThrow |-> FALSE,
        lastThrew |-> FALSE, searchReply |-> "none"]

\* if (dbPromise) return dbPromise; the variant starts another
\* initialization
NeverJoins(w) == FALSE
JoinsPending(w) == w.dbPromise # 0

\* db = localDb only after await rehydrateFromIdb(localDb); the variant
\* does not wait
RehydrationNotAwaited(promise) == promise # "rejected"
RehydrationAwaited(promise) == promise = "fulfilled"

UnusedInits == {k \in Inits : wk.inits[k] = "unused"}

\* a request handler runs `await getSQLite()`
GetSQLiteCall ==
  \E h \in Handlers :
    /\ wk.handlers[h].pc # "waiting"
    /\ IF wk.db # 0
         THEN wk' = [wk EXCEPT !.handlers[h] = [pc |-> "ready", on |-> 0, handle |-> wk.db]]
         ELSE IF JoinsPending(wk)
           THEN wk' = [wk EXCEPT !.handlers[h] = [pc |-> "waiting", on |-> wk.dbPromise, handle |-> 0]]
           ELSE /\ UnusedInits # {}
                /\ LET k == CHOOSE x \in UnusedInits : \A y \in UnusedInits : x <= y
                   IN wk' = [wk EXCEPT !.dbPromise = k,
                                       !.inits[k] = "loading",
                                       !.handlers[h] = [pc |-> "waiting", on |-> k, handle |-> 0]]

\* the handlers awaiting initialization k see it reject; its starter runs
\* dbPromise = null
Rejected(w, k) ==
  [w EXCEPT !.inits[k] = "failed",
            !.dbPromise = 0,
            !.handlers = [h \in Handlers |->
                            IF @[h].pc = "waiting" /\ @[h].on = k
                              THEN [pc |-> "failed", on |-> 0, handle |-> 0]
                              ELSE @[h]]]

\* import(path), init() or CREATE TABLE training_chunks throws
InitLoadFails ==
  \E k \in Inits :
    /\ wk.inits[k] = "loading"
    /\ wk' = Rejected(wk, k)

\* the database is opened, training_chunks created, vec0 created and
\* self-tested, and rehydrateFromIdb(localDb) is called
InitOpens ==
  \E k \in Inits, build \in Vec0Hosts :
    /\ wk.inits[k] = "loading"
    /\ wk.host \in {"unknown", build}
    /\ wk' = [wk EXCEPT
                !.inits[k] = "rehydrating",
                !.opens = @ + 1,
                !.host = build,
                !.vec0Available = build = "ok",
                !.marked = @ \/ build # "ok",
                !.lateIndexUse = @ \/ (wk.marked /\ build = "selfTestFails"),
                !.rehydratePromise = IF @ = "null" THEN "pending" ELSE @,
                !.scans = IF wk.rehydratePromise = "null" THEN @ + 1 ELSE @]

\* the cursor scan ends: the transaction completes, with or without a vec0
\* insert that failed on the way (vec0Disable), or it errors
RehydrateSettles ==
  /\ wk.rehydratePromise = "pending"
  /\ \E outcome \in {"fulfilled", "rejected"}, insertFails \in BOOLEAN :
       /\ insertFails => wk.vec0Available
       /\ wk' = [wk EXCEPT !.rehydratePromise = outcome,
                           !.vec0Available = @ /\ ~insertFails,
                           !.marked = @ \/ insertFails]

\* await rehydrateFromIdb(localDb) returns: db = localDb; return db
InitFinishes ==
  \E k \in Inits :
    /\ wk.inits[k] = "rehydrating"
    /\ RehydrationAwaited(wk.rehydratePromise)
    /\ wk' = [wk EXCEPT
                !.inits[k] = "done",
                !.db = k,
                !.handlers = [h \in Handlers |->
                                IF @[h].pc = "waiting" /\ @[h].on = k
                                  THEN [pc |-> "ready", on |-> 0, handle |-> k]
                                  ELSE @[h]]]

\* await rehydrateFromIdb(localDb) throws
InitRehydrateFails ==
  \E k \in Inits :
    /\ wk.inits[k] = "rehydrating"
    /\ wk.rehydratePromise = "rejected"
    /\ wk' = Rejected(wk, k)

\* a handler that got the handle writes a row and its vector: vec0Upsert
\* inserts only while vec0Available, and disables vec0 when the insert fails
StoreWrite ==
  \E h \in Handlers, insertFails \in BOOLEAN :
    /\ wk.handlers[h].pc = "ready"
    /\ insertFails => wk.vec0Available
    /\ wk' = [wk EXCEPT
                !.handlers[h].pc = "idle",
                !.earlyUse = @ \/ wk.rehydratePromise # "fulfilled",
                !.lateIndexUse = @ \/ (wk.marked /\ wk.vec0Available),
                !.vec0Available = @ /\ ~insertFails,
                !.marked = @ \/ insertFails]

\* a handler that got the handle runs searchVectors: no query while
\* ~vec0Available; a query that throws is answered with no results
SearchVectorsCall ==
  \E h \in Handlers, throws \in BOOLEAN :
    /\ wk.handlers[h].pc = "ready"
    /\ throws => wk.vec0Available
    /\ wk' = [wk EXCEPT
                !.handlers[h].pc = "idle",
                !.earlyUse = @ \/ wk.rehydratePromise # "fulfilled",
                !.lateIndexUse = @ \/ (wk.marked /\ wk.vec0Available),
                !.queriedAfterThrow = @ \/ (wk.queryThrew /\ wk.vec0Available),
                !.queryThrew = @ \/ throws,
                !.lastThrew = throws,
                !.searchReply = IF wk.vec0Available /\ ~throws
                                  THEN "search_results" ELSE "search_results_empty"]

\* ------------------------------------------------------------------------
\* Archival worker (src/components/chat-widget.ts, lines 284-590)
\* ------------------------------------------------------------------------
\* storeChunks requests handled in one behaviour
MaxStoreCalls == 2

\* the texts of the chunks of one request, by chunkIndex
ArchiveTexts == <<<<"x">>, <<"y">>>>

\* the length of chunk.embedding as the caller passes it (0: absent)
GivenEmbeddings == {0, EMBEDDING_DIM, EMBEDDING_DIM - 1}
\* the length of embed(chunk.text), Array.from(output.data), or the
\* embedder throws
EmbedThrows == -1
EmbedResults == {EmbedThrows, EMBEDDING_DIM, EMBEDDING_DIM - 1}

\* the chunks archiveMessages or another caller sends: ids conv_<t>_<index>
ChunkOf(t, index, given) ==
  [id |-> <<"conv", t, index>>, source |-> "conversation",
   chunkIndex |-> index, text |-> ArchiveTexts[index + 1],
   embedding |-> IF given = 0 THEN NullEmbedding
                 ELSE NumberArray(given, ArchiveTexts[index + 1])]

\* storeChunk(record): store.put(record) under the key path "id"
storeChunk(store, record) ==
  {c \in store : c.id # record.id} \cup {record}

\* the loop of handleStoreChunks over chunks[i ..]; embedded[i] is what
\* embed returns for chunk i when it is called
RECURSIVE StoreChunksLoop(_, _, _, _, _)
StoreChunksLoop(store, results, chunks, embedded, i) ==
  IF i > Len(chunks) THEN [store |-> store, results |-> results]
  ELSE LET chunk == chunks[i]
           mustEmbed == chunk.embedding = NullEmbedding
                        \/ chunk.embedding.n = 0
       IN IF mustEmbed /\ embedded[i] = EmbedThrows
            THEN StoreChunksLoop(store,
                   Append(results, [id |-> chunk.id, success |-> FALSE]),
                   chunks, embedded, i + 1)
            ELSE LET record ==
                       [id |-> chunk.id, source |-> chunk.source,
                        chunkIndex |-> chunk.chunkIndex, text |-> chunk.text,
                        embedding |->
                          IF mustEmbed
                            THEN NumberArray(embedded[i], chunk.text)
                            ELSE chunk.embedding]
                 IN StoreChunksLoop(storeChunk(store, record),
                      Append(results, [id |-> record.id, success |-> TRUE]),
                      chunks, embedded, i + 1)

handleStoreChunks(store, chunks, embedded) ==
  StoreChunksLoop(store, <<>>, chunks, embedded, 1)

ArchiveInit ==
  /\ archive = {}
  /\ storeCalls = 0
  /\ storeResults = <<>>

\* the worker handles { type: "storeChunks", chunks }
HandleStoreChunks ==
  /\ storeCalls < MaxStoreCalls
  /\ \E n \in 1 .. Len(ArchiveTexts) :
       \E given \in [1 .. n -> GivenEmbeddings],
          embedded \in [1 .. n -> EmbedResults] :
         LET chunks == [i \in 1 .. n |-> ChunkOf(storeCalls, i - 1, given[i])]
             r == handleStoreChunks(archive, chunks, embedded)
         IN /\ archive' = r.store
            /\ storeResults' = r.results
  /\ storeCalls' = storeCalls + 1

\* archiveMessages (src/services/llm-client.ts 269-293): the chunks of the
\* evicted turns go to the worker without embedding; workerCall resolves on
\* storeComplete, whatever the results say, and rejects when the timer fires
\* first
NoArchiveCall == [outcome |-> "none", sent |-> {}]

AmInit == am = NoArchiveCall

ArchiveMessagesCall ==
  /\ storeCalls < MaxStoreCalls
  /\ \E n \in 1 .. Len(ArchiveTexts) :
       \E embedded \in [1 .. n -> EmbedResults], timedOut \in BOOLEAN :
         LET chunks == [i \in 1 .. n |-> ChunkOf(storeCalls, i - 1, 0)]
             r == handleStoreChunks(archive, chunks, embedded)
         IN /\ archive' = r.store
            /\ storeResults' = r.results
            /\ am' = [outcome |-> IF timedOut THEN "rejected" ELSE "resolved",
                      sent |-> {chunks[i].id : i \in 1 .. n}]
  /\ storeCalls' = storeCalls + 1

\* the worker handles { type: "clear" }: store.clear()
HandleClear ==
  /\ archive # {}
  /\ archive' = {}
  /\ storeResults' = <<>>
  /\ UNCHANGED storeCalls

\* the store is cleared after the call
ClearAfterArchive ==
  /\ HandleClear
  /\ am' = NoArchiveCall

vars == <<memVars, sessVars, storeVars, archiveVars, auxVars>>

\* ------------------------------------------------------------------------
\* Claims about the Active Memory Window (checked under SpecMem)
\* ------------------------------------------------------------------------
AfterAdd == ret.op = "addMessage"
Evicted == SeqToSet(ret.evicted)
\* the turns stored before the call, oldest first (createdAt is the creation
\* order)
LogBefore == ByCreatedAt(ret.before)

RECURSIVE SumTokens(_)
SumTokens(s) ==
  IF s = <<>> THEN 0 ELSE Head(s).tokenCount + SumTokens(Tail(s))

NewTurnTokens == SumTokens(ByCreatedAt(ret.added))

\* C1: after any addMessage call tokenTotal is at most the ceiling, and at
\* most 90% of the ceiling when the call evicted a turn.
C1_EvictionInvariant ==
  AfterAdd =>
    /\ meta.tokenTotal <= ACTIVE_MEMORY
    /\ (ret.evicted # <<>> => 10 * meta.tokenTotal <= 9 * ACTIVE_MEMORY)

\* the running total, new turn included, once the j oldest turns are removed
TotalWithout(j) ==
  ret.metaBefore.tokenTotal + NewTurnTokens - SumTokens(SubSeq(LogBefore, 1, j))

\* C2: when addMessage evicts, it evicts exactly the k oldest turns, k being
\* the least number whose removal brings the running total (new turn
\* included) to at most 90% of the ceiling.
C2_EvictsLeastOldestPrefix ==
  (AfterAdd /\ ret.evicted # <<>>) =>
    LET k == Len(ret.evicted)
    IN /\ k <= Len(LogBefore)
       /\ ret.evicted = SubSeq(LogBefore, 1, k)
       /\ 10 * TotalWithout(k) <= 9 * ACTIVE_MEMORY
       /\ \A j \in 0 .. k - 1 : 10 * TotalWithout(j) > 9 * ACTIVE_MEMORY

C4_EvictsOwnSessionOnly ==
  AfterAdd =>
    /\ \A m \in ret.before : m.sessionId # ret.sessionId => m \in msgs
    /\ \A m \in Evicted : m.sessionId = ret.sessionId

\* the turns of session s, oldest first
SessionLog(S, s) == ByCreatedAt({m \in S : m.sessionId = s})

\* the longest run of the most recent turns of log whose tokenCounts sum to
\* at most maxTokens
LongestRecentRun(log, maxTokens) ==
  LET fits(k) == SumTokens(SubSeq(log, Len(log) - k + 1, Len(log))) <= maxTokens
      k == CHOOSE n \in 0 .. Len(log) :
             /\ fits(n)
             /\ \A n2 \in 0 .. Len(log) : fits(n2) => n2 <= n
  IN SubSeq(log, Len(log) - k + 1, Len(log))

\* C5: getRecentMessages(maxTokens, s) returns, oldest first, the longest run
\* of the most recent turns of session s that fits maxTokens.
C5_RecentRunChronological ==
  (ret.op = "getRecentMessages" /\ ret.sessionId # NoSession) =>
    ret.result = LongestRecentRun(SessionLog(ret.before, ret.sessionId),
                                  ret.maxTokens)

Init ==
  /\ MemInit /\ SessInit /\ StoreInit /\ ArchiveInit /\ reply = NoReply
  /\ EmbedderInit /\ BridgeInit /\ ctx = NoCtx /\ SegInit /\ AddersInit /\ WkInit
  /\ LdInit /\ PoolInit /\ BtInit /\ WgInit /\ IngInit /\ AmInit

\* the chat alone, the workers idle
InitChat == Init /\ host = DefaultHost

NextMem ==
  \/ AddMessageCall
  \/ GetRecentMessagesCall
  \/ ClearMemoryCall
  \/ ClearSessionCall

\* ------------------------------------------------------------------------
\* Claims about ChatSession.sendMessage (checked under SpecSession)
\* ------------------------------------------------------------------------
EventIdx(kind) == {i \in DOMAIN events : events[i].kind = kind}
Happened(kind) == EventIdx(kind) # {}
Before(kind1, kind2) ==
  \A i \in EventIdx(kind1), j \in EventIdx(kind2) : i < j

\* the concatenation of the stream fragments handed to onChunk, in order
RECURSIVE ConcatChunks(_)
ConcatChunks(log) ==
  IF log = <<>> THEN <<>>
  ELSE (IF Head(log).kind = "chunk" THEN Head(log).text ELSE <<>>)
       \o ConcatChunks(Tail(log))

\* C6: when getRelevantContext throws during sendMessage, the call goes on:
\* it does not reject because of the retrieval, the generation call is
\* invoked without injected context, and a call that returns has persisted
\* the assistant turn.
C6_RetrievalFailureSwallowed ==
  Happened("retrievalFailed") =>
    /\ ss.cause # "retrieval"
    /\ ss.pc \in {"generate", "streaming", "invoked", "persist",
                  "archiveAssistant", "returned", "rejected"}
    /\ (ss.pc = "generate" => ss.context = NoContext /\ ENABLED InvokeGeneration)
    /\ \A i \in EventIdx("generationInvoked") : events[i].text = NoContext
    /\ (ss.pc \in {"archiveAssistant", "returned"} =>
          /\ Happened("generationInvoked")
          /\ Cardinality(EventIdx("persistAssistant")) = 1)

C6_Witness == Happened("retrievalFailed") /\ ss.pc = "returned"

\* C7: for every sendMessage that returns, the user turn was persisted
\* before the generation call was invoked, exactly one assistant turn was
\* persisted after the generation call finished, its content is the returned
\* text, and in streaming mode that text is the concatenation of the stream
\* fragments and the last partial passed to onStream.
C7_PersistOrderAndContent ==
  ss.pc = "returned" =>
    /\ Cardinality(EventIdx("persistUser")) = 1
    /\ Cardinality(EventIdx("generationInvoked")) = 1
    /\ Cardinality(EventIdx("generationDone")) = 1
    /\ Cardinality(EventIdx("persistAssistant")) = 1
    /\ Before("persistUser", "generationInvoked")
    /\ Before("generationInvoked", "generationDone")
    /\ Before("generationDone", "persistAssistant")
    /\ \A i \in EventIdx("persistAssistant") :
         events[i].text = ss.assistantContent
    /\ \E m \in msgs : /\ m.role = "assistant"
                       /\ m.content = ss.assistantContent
                       /\ m.id = meta.newestMessageId
    /\ (ss.streaming =>
          /\ ss.assistantContent = ConcatChunks(events)
          /\ (ss.chunks > 0 => ss.partial = ss.assistantContent))

C7_Witness ==
  /\ ss.pc = "returned"
  /\ ss.streaming
  /\ ss.chunks = 2
  /\ \A i \in EventIdx("chunk") : events[i].text # <<>>

\* the memory-store called directly, one call at a time
SpecMem == InitChat /\ [][NextMem]_vars

\* one ChatSession whose sendMessage calls follow one another
SpecSession == InitChat /\ [][NextSession]_vars

NextStore ==
  \/ Prepare /\ UNCHANGED <<memVars, sessVars, archiveVars, auxVars>>
  \/ ClearUserData /\ UNCHANGED <<memVars, sessVars, archiveVars, auxVars>>
  \/ Reload /\ UNCHANGED <<memVars, sessVars, archiveVars, auxVars>>

\* the training worker answering one query or listing at a time between
\* the requests that write, on a host with OPFS
NextSearch ==
  \/ reply = NoReply /\ Prepare
       /\ UNCHANGED <<memVars, sessVars, archiveVars, auxVars>>
  \/ reply = NoReply /\ ClearUserData
       /\ UNCHANGED <<memVars, sessVars, archiveVars, auxVars>>
  \/ PerformSearch /\ UNCHANGED <<memVars, sessVars, archiveVars, embVars, bridgeVars,
                   textVars, laterVars>>
  \/ GetUploadData /\ UNCHANGED <<memVars, sessVars, archiveVars, embVars, bridgeVars,
                   textVars, laterVars>>
  \/ ReplyRead /\ UNCHANGED <<memVars, sessVars, archiveVars, embVars, bridgeVars,
                   textVars, laterVars>>

InitSearch == Init /\ useContext /\ host.opfs

\* the training worker handling one request at a time, the chat idle
InitStore == Init /\ useContext

SpecStore == InitStore /\ [][NextStore]_vars

SpecSearch == InitSearch /\ [][NextSearch]_vars

NextArchive ==
  \/ HandleStoreChunks /\ UNCHANGED <<memVars, sessVars, storeVars, auxVars>>
  \/ HandleClear /\ UNCHANGED <<memVars, sessVars, storeVars, auxVars>>

\* the archival worker handling one request at a time, the chat idle
InitArchive == Init /\ useContext /\ host = DefaultHost

SpecArchive == InitArchive /\ [][NextArchive]_vars

\* ------------------------------------------------------------------------
\* Claims about the stores
\* ------------------------------------------------------------------------
Dimension(e) ==
  CASE e.kind = "bytes" -> e.n \div BYTES_PER_FLOAT
    [] OTHER -> e.n

WholeFloats(e) == e.kind = "bytes" => e.n % BYTES_PER_FLOAT = 0

HasDimensionD(e) == WholeFloats(e) /\ Dimension(e) = EMBEDDING_DIM

\* the embeddings the training worker holds
TrainingEmbeddings ==
  {r.embedding : r \in {x \in table : x.embedding # NullEmbedding}}
  \cup {v.embedding : v \in vectors}
  \cup {c.embedding : c \in idb}

\* C8 restricted to the structured table, the similarity index and the
\* key-value mirror: every embedding they hold has exactly D components
TrainingEmbeddingsHaveD == \A e \in TrainingEmbeddings : HasDimensionD(e)

\* C8: every embedding held by the structured table, the similarity index,
\* the key-value mirror and the archival chunk store has exactly D = 768
\* components; an embedding of another dimension is written to none of them
C8_StoredEmbeddingsHaveD ==
  /\ TrainingEmbeddingsHaveD
  /\ \A c \in archive : HasDimensionD(c.embedding)

LastSourceRows == SourceRows(table, lastOp.userId, lastOp.sourceName)

SecondIdenticalIngestion ==
  /\ lastOp.op = "prepare"
  /\ lastOp.done
  /\ lastOp.repeated

C10_ReingestionOverwrites ==
  (lastOp.op = "prepare" /\ lastOp.done) =>
    \A i \in 1 .. Len(lastOp.chunks) :
      \E r \in LastSourceRows :
        /\ r.chunkIndex = i - 1
        /\ r.text = lastOp.chunks[i]
        /\ r.embedding # NullEmbedding => r.embedding.of = lastOp.chunks[i]

\* C10 restricted to clearExisting = true
ReingestionOverwritesWhenCleared ==
  lastOp.clearExisting => C10_ReingestionOverwrites

\* ------------------------------------------------------------------------
\* Claims about similarity search and clear-owner-data
\* ------------------------------------------------------------------------
LocalSearch == reply.op = "search" /\ reply.ok /\ reply.source = "local"

RowOf(id) == CHOOSE r \in table : r.id = id

\* C11: the results of a similarity search for owner A that come from the
\* local store (index path or brute-force path) are chunks owned by A
C11_SearchReturnsOwnChunksOnly ==
  LocalSearch =>
    \A i \in DOMAIN reply.results :
      /\ \E r \in table : r.id = reply.results[i].id
      /\ RowOf(reply.results[i].id).userId = reply.userId

\* C11 restricted to the brute-force path
ScanReturnsOwnChunksOnly ==
  (LocalSearch /\ reply.byIndex = <<>>) => C11_SearchReturnsOwnChunksOnly

IsPrefix(a, b) == Len(a) <= Len(b) /\ a = SubSeq(b, 1, Len(a))

\* C12: a query walks the chain index, scan, remote in that order; the
\* remote store is read only when both local paths returned nothing, and
\* when a local path returned a result the remote store is not read and
\* the source is reported as local
C12_FallbackChainOrder ==
  (reply.op = "search" /\ reply.ok) =>
    /\ reply.path # <<>>
    /\ IsPrefix(reply.path, <<"index", "scan", "remote">>)
    /\ "remote" \in Range(reply.path) =>
         reply.byIndex = <<>> /\ reply.scanned = <<>>
    /\ (reply.byIndex # <<>> \/ reply.scanned # <<>>) =>
         /\ "remote" \notin Range(reply.path)
         /\ reply.source = "local"
         /\ reply.results # <<>>

C12_Witness ==
  /\ reply.op = "search"
  /\ reply.ok
  /\ reply.path = <<"index", "scan">>
  /\ reply.scanned # <<>>
  /\ reply.source = "local"

C12_WitnessRemote ==
  /\ reply.op = "search"
  /\ reply.path = <<"index", "scan", "remote">>
  /\ reply.results # <<>>

\* the completed chunks of the owner of the last reply that have a vector
Candidates ==
  {r \in CompletedRows(Worker, reply.userId) : r.embedding # NullEmbedding}

ScoreOfRow(r) ==
  computeDotProduct(reply.q, r.embedding.of)
  + KeywordHits(reply.q, r.text) * KEYWORD_BOOST

\* the ordering half of C13: at most k results, scores non-increasing, no
\* candidate left out scores higher than a returned one
ScanOrderValid ==
  (LocalSearch /\ reply.byIndex = <<>>) =>
    /\ Len(reply.results) <= reply.topK
    /\ \A i, j \in DOMAIN reply.results :
         i < j => reply.results[i].score >= reply.results[j].score
    /\ \A r \in Candidates :
         (\A i \in DOMAIN reply.results : reply.results[i].id # r.id) =>
           \A i \in DOMAIN reply.results :
             reply.results[i].score >= ScoreOfRow(r)

\* C13: when the similarity index is unavailable and the owner has chunks
\* with a vector, the search returns brute-force results: at least one, at
\* most k, by non-increasing score, none scoring below a candidate left out
C13_ScanWhenIndexUnavailable ==
  (reply.op = "search" /\ reply.ok /\ ~reply.indexed /\ Candidates # {}) =>
    /\ reply.source = "local"
    /\ reply.results # <<>>
    /\ ScanOrderValid

\* C13 for an owner none of whose completed rows lacks its embedding
ScanWhenNoRowLacksEmbedding ==
  (\A r \in CompletedRows(Worker, reply.userId) :
     r.embedding # NullEmbedding) => C13_ScanWhenIndexUnavailable

C15_ListingSurvivesBadRow ==
  reply.op = "get_upload_data" =>
    /\ reply.ok
    /\ {reply.rows[i].id : i \in DOMAIN reply.rows}
       = {r.id : r \in CompletedRows(Worker, reply.userId)}

\* the first half of C15: a row whose embedding was rejected is completed
\* and so is every other row of an ingestion that ran to its end
RejectedRowIsCompleted ==
  (lastOp.op = "prepare" /\ lastOp.done) =>
    \A r \in LastSourceRows : r.status = "completed"

OtherOwners(rows, userId) == {r \in rows : r.userId # userId}

\* C16: after clear-owner-data for owner o the structured table and the
\* key-value mirror hold no row of o, and the rows and mirror entries of
\* every other owner are those of the database as it was opened
C16_ClearOwnerFrame ==
  [][lastOp'.op = "clear_user_data" =>
       /\ \A r \in table' \cup idb' : r.userId # lastOp'.userId
       /\ OtherOwners(table', lastOp'.userId)
          = OtherOwners(getSQLite(Worker).table, lastOp'.userId)
       /\ OtherOwners(idb', lastOp'.userId)
          = OtherOwners(idb, lastOp'.userId)]_vars

C16_Witness ==
  /\ lastOp.op = "clear_user_data"
  /\ lastOp.removed > 0
  /\ OtherOwners(table, lastOp.userId) # {}
  /\ OtherOwners(idb, lastOp.userId) # {}

\* ------------------------------------------------------------------------
\* The embedder loaders
\* ------------------------------------------------------------------------
NextEmbedder ==
  \/ GetEmbedderCall
       /\ UNCHANGED <<memVars, sessVars, storeVars, archiveVars, searchVars,
                      bridgeVars, textVars, laterVars>>
  \/ LoadSettles
       /\ UNCHANGED <<memVars, sessVars, storeVars, archiveVars, searchVars,
                      bridgeVars, textVars, laterVars>>

SpecEmbedder == InitChat /\ [][NextEmbedder]_vars

\* C17: in every module, a getEmbedder call made after an earlier load
\* failed starts a new load instead of returning the earlier failure
C17_FailedLoadNotCached ==
  \A m \in Loaders : embedder[m].afterFailure => embedder[m].startedLoad

\* ------------------------------------------------------------------------
\* The calls to the workers
\* ------------------------------------------------------------------------
BridgeFrame ==
  UNCHANGED <<memVars, sessVars, storeVars, archiveVars, searchVars, embVars,
              textVars, laterVars>>

TimerFires == WorkerTimeout /\ BridgeFrame

NextBridge ==
  \/ WorkerCall /\ BridgeFrame
  \/ WorkerAnswers /\ BridgeFrame
  \/ TimerFires
  \/ VectorCall /\ BridgeFrame
  \/ VectorAnswers /\ BridgeFrame

\* a worker may never answer (it is wedged or still loading); a timer that
\* was set does fire
SpecBridge == InitChat /\ [][NextBridge]_vars /\ WF_vars(TimerFires)

\* the half of C18 about the archival bridge: every workerCall settles
WorkerCallsSettle ==
  \A i \in CallIds :
    (bridge.outcome[i] = "pending") ~> (bridge.outcome[i] # "pending")

\* C18: every call from the page to a worker eventually settles, the
\* workerCall of the archival bridge and the vector-search calls alike
C18_EveryCallSettles ==
  /\ WorkerCallsSettle
  /\ \A i \in CallIds :
       (bridge.voutcome[i] = "pending") ~> (bridge.voutcome[i] # "pending")

\* ------------------------------------------------------------------------
\* Context string and segmenter: specifications and properties
\* ------------------------------------------------------------------------
TextFrame ==
  UNCHANGED <<memVars, sessVars, storeVars, archiveVars, searchVars, embVars,
              bridgeVars, laterVars>>

NextContext == GetRelevantContextCall /\ UNCHANGED seg /\ TextFrame

SpecContext == InitChat /\ [][NextContext]_vars

SegmenterSteps == ChunkTextStep /\ UNCHANGED ctx /\ TextFrame
SegmenterReturns == ChunkTextReturn /\ UNCHANGED ctx /\ TextFrame

NextSegmenter ==
  \/ ChunkTextCall /\ UNCHANGED ctx /\ TextFrame
  \/ SegmenterSteps
  \/ SegmenterReturns
  \/ ChunksTaken /\ UNCHANGED ctx /\ TextFrame

\* the loop of chunkText is synchronous code: once entered it keeps running
InitSegmenter == InitChat /\ useContext

SpecSegmenter ==
  InitSegmenter /\ [][NextSegmenter]_vars /\ WF_vars(SegmenterSteps)
           /\ WF_vars(SegmenterReturns)

\* C19: the string getRelevantContext returns is never longer than
\* maxTokens * 3.5 characters, the separators counted.
C19_ContextWithinBudget ==
  (ctx.called /\ ctx.out # NoContext) => 2 * Len(ctx.out) <= 7 * ctx.maxTokens

\* what the loop does bound: the string without its last separator, of which
\* trim() leaves the two newlines and the three dashes
ContextWithinBudgetButSeparator ==
  (ctx.called /\ ctx.out # NoContext) =>
    2 * (Len(ctx.out) - Len(TrimEnd(Separator))) <= 7 * ctx.maxTokens

\* what chunkText does guarantee: at most MAX_CHUNKS chunks, none empty
SegmenterOutputBounded ==
  /\ Len(seg.chunks) <= MAX_CHUNKS
  /\ \A i \in DOMAIN seg.chunks : TrimmedLength(seg.chunks[i]) > 0

\* C20: chunkText terminates for every text, maxLen >= 1 and overlap >= 0,
\* and returns at most MAX_CHUNKS non-empty strings.
C20_SegmenterTerminates ==
  /\ (seg.pc = "loop") ~> (seg.pc = "done")
  /\ [](seg.pc = "done" => SegmenterOutputBounded)


\* the windows of a finished call that stayed below MAX_CHUNKS
FinishedBelowCap ==
  seg.pc = "done" /\ seg.clean # <<>> /\ Len(seg.chunks) < MAX_CHUNKS

WindowSlice(w) == SliceOf(seg.clean, w.start, w.end)

\* C21: below the emission cap every character position of the normalized
\* text lies in a window, each next window starts at or before the end of
\* the previous one, and a window whose text is not among the chunks has the
\* dedup text of an emitted chunk (the windows are cut trimmed, so only
\* surrounding whitespace is lost besides).
C21_WindowsCoverInput ==
  FinishedBelowCap =>
    /\ \A p \in 0 .. TrimmedLength(seg.clean) - 1 :
         \E i \in DOMAIN seg.windows :
           seg.windows[i].start <= p /\ p < seg.windows[i].end
    /\ \A i \in 1 .. Len(seg.windows) - 1 :
         seg.windows[i + 1].start <= seg.windows[i].end
    /\ \A i \in DOMAIN seg.windows :
         \E j \in DOMAIN seg.chunks :
           \/ seg.chunks[j] = WindowSlice(seg.windows[i])
           \/ /\ TrimmedLength(seg.chunks[j]) >= DEDUP_MIN_LENGTH
              /\ normalizeForDedup(seg.chunks[j]) =
                   normalizeForDedup(WindowSlice(seg.windows[i]))

\* a finished call with overlapping windows, one of them dropped as a
\* duplicate
C21_Witness ==
  /\ FinishedBelowCap
  /\ Len(seg.windows) > Len(seg.chunks)
  /\ \E i \in 1 .. Len(seg.windows) - 1 :
       seg.windows[i + 1].start < seg.windows[i].end

\* the dedup text of a chunk, spelled out: lowercased block by block
DedupText(chunk) == [i \in DOMAIN chunk |-> IF chunk[i] = "A" THEN "a" ELSE chunk[i]]

\* the emitted chunks that dedup looks at
LongChunks ==
  {i \in DOMAIN seg.chunks : TrimmedLength(seg.chunks[i]) >= DEDUP_MIN_LENGTH}

\* C22: no two emitted chunks of at least DEDUP_MIN_LENGTH characters have
\* the same whitespace-collapsed, lowercased text.
C22_NoDuplicateLongChunks ==
  \A i, j \in LongChunks :
    i # j => DedupText(seg.chunks[i]) # DedupText(seg.chunks[j])

\* a call that met a long slice differing from an emitted chunk in case only,
\* and one whose short chunks repeat
C22_Witness ==
  /\ seg.pc = "done"
  /\ \E i \in DOMAIN seg.windows, j \in DOMAIN seg.chunks :
       /\ WindowSlice(seg.windows[i]) # seg.chunks[j]
       /\ TrimmedLength(seg.chunks[j]) >= DEDUP_MIN_LENGTH
       /\ DedupText(WindowSlice(seg.windows[i])) = DedupText(seg.chunks[j])
       /\ \A k \in DOMAIN seg.chunks : seg.chunks[k] # WindowSlice(seg.windows[i])

ShortChunksRepeat ==
  \E i, j \in DOMAIN seg.chunks :
    i # j /\ seg.chunks[i] = seg.chunks[j]


\* ------------------------------------------------------------------------
\* The aggregate of the Active Memory Window under interleaved calls
\* ------------------------------------------------------------------------
RaceFrame ==
  UNCHANGED <<sessVars, storeVars, archiveVars, searchVars, embVars,
              bridgeVars, textVars, initVars, lastVars>>

NextMemRace ==
  \/ AddReadsMeta /\ RaceFrame
  \/ AddEvicts /\ RaceFrame
  \/ AddStores /\ RaceFrame
  \/ AddListsLog /\ RaceFrame
  \/ AddUpdatesMeta /\ RaceFrame
  \/ ClearMemoryMeanwhile /\ RaceFrame
  \/ ClearSessionMeanwhile /\ RaceFrame

SpecMemRace == InitSegmenter /\ [][NextMemRace]_vars

AggregateMatchesLog ==
  /\ meta.tokenTotal = SumTokens(ByCreatedAt(msgs))
  /\ meta.messageCount = Cardinality(msgs)

NoAddInProgress == \A c \in Callers : adders[c].pc = "idle"

AggregateConsistentSequential == AggregateMatchesLog


\* ------------------------------------------------------------------------
\* Evicted turns and archival during sendMessage (checked under SpecSession)
\* ------------------------------------------------------------------------
ArchivedIds(i) == {events[i].text[k] : k \in DOMAIN events[i].text}

\* the events of the call up to and including event i
KindsBefore(i, kind) == {j \in EventIdx(kind) : j < i}

\* every turn a step removes from the log is in the archiveMessages call that
\* step enters
EvictedAreHandedOver ==
  \A m \in msgs \ msgs' :
    /\ events' # <<>>
    /\ events'[Len(events')].kind = "archiveCalled"
    /\ \E k \in DOMAIN events'[Len(events')].text :
         events'[Len(events')].text[k] = m.id

\* C24: during sendMessage every evicted turn is passed to archiveMessages,
\* once; the turns evicted by persisting the user turn before the generation
\* call is invoked, those evicted by persisting the assistant turn before
\* sendMessage returns; onEvicted is called only after the archive call of
\* the same turns resolved.
C24_EvictedArchivedOnce ==
  /\ [][EvictedAreHandedOver]_vars
  /\ [](\A i, j \in EventIdx("archiveCalled") :
          i # j => ArchivedIds(i) \cap ArchivedIds(j) = {})
  /\ [](\A i \in EventIdx("archiveCalled") :
          /\ KindsBefore(i, "persistAssistant") = {}
               => \A g \in EventIdx("generationInvoked") : i < g
          /\ ss.pc = "returned" => Len(events) > i)
  /\ [](ss.pc = "returned" => ss.evicted = <<>>)
  /\ [](\A i \in EventIdx("onEvicted") :
          /\ i > 2
          /\ events[i - 1].kind = "archived"
          /\ events[i - 2].kind = "archiveCalled"
          /\ events[i - 2].text = events[i].text)

\* a sendMessage that returned after archiving turns evicted by its user turn
C24_Witness ==
  /\ ss.pc = "returned"
  /\ \E i \in EventIdx("archiveCalled"), g \in EventIdx("generationInvoked") :
       i < g

\* a sendMessage that returned after archiving a turn evicted by its
\* assistant turn
ArchivedAfterAssistantTurn ==
  /\ ss.pc = "returned"
  /\ \E i \in EventIdx("archiveCalled") : KindsBefore(i, "persistAssistant") # {}


\* ------------------------------------------------------------------------
\* Store initialization and the similarity index over the life of the worker
\* ------------------------------------------------------------------------
WorkerFrame ==
  UNCHANGED <<memVars, sessVars, storeVars, archiveVars, searchVars, embVars,
              bridgeVars, textVars, raceVars, lastVars>>

NextWorker ==
  \/ GetSQLiteCall /\ WorkerFrame
  \/ InitLoadFails /\ WorkerFrame
  \/ InitOpens /\ WorkerFrame
  \/ RehydrateSettles /\ WorkerFrame
  \/ InitFinishes /\ WorkerFrame
  \/ InitRehydrateFails /\ WorkerFrame
  \/ StoreWrite /\ WorkerFrame
  \/ SearchVectorsCall /\ WorkerFrame

SpecWorker == InitSegmenter /\ [][NextWorker]_vars

\* uninitialized, initializing, ready
StoreState(w) ==
  IF w.db # 0 THEN "ready"
  ELSE IF w.dbPromise # 0 THEN "initializing" ELSE "uninitialized"

\* the moves of the claimed state machine, and staying
StateMoves(from, to) ==
  \/ from = to
  \/ from = "uninitialized" /\ to = "initializing"
  \/ from = "initializing" /\ to \in {"ready", "uninitialized"}

InFlight == {k \in Inits : wk.inits[k] \in {"loading", "rehydrating"}}
Succeeded == {k \in Inits : wk.inits[k] = "done"}

\* C25: under any interleaving of getSQLite callers at most one
\* initialization is pending or has succeeded, every caller that got a handle
\* got the same one, and the state moves only uninitialized -> initializing
\* -> ready, or from initializing back to uninitialized on failure.
C25_InitSingleFlight ==
  /\ [](Cardinality(InFlight \cup Succeeded) <= 1)
  /\ [](\A h \in Handlers :
          wk.handlers[h].handle # 0 => wk.handlers[h].handle = wk.db)
  /\ [][StateMoves(StoreState(wk), StoreState(wk'))]_vars

\* two handlers hold the handle of an initialization one of them joined, after
\* an earlier initialization failed
C25_Witness ==
  /\ \A h \in Handlers : wk.handlers[h].handle = wk.db /\ wk.db # 0
  /\ \E k \in Inits : wk.inits[k] = "failed"

\* C26: the rehydration scan is started at most once per process, a store
\* that is ready has had its rehydration attempted and finished, and no
\* handler uses the table before that.
C26_RehydrateOnceBeforeReady ==
  /\ wk.scans <= 1
  /\ (wk.db # 0 => wk.scans = 1 /\ wk.rehydratePromise = "fulfilled")
  /\ ~wk.earlyUse

C26_Witness ==
  /\ wk.db = 2
  /\ wk.scans = 1
  /\ \E h \in Handlers : wk.handlers[h].pc = "idle" /\ wk.handlers[h].handle # 0

\* C28: once the index was marked unavailable, vec0Available never becomes
\* true again and no later insert or k-nearest query is issued against it.
C28_IndexStaysUnavailable ==
  /\ [][(wk.marked /\ ~wk.vec0Available) => ~wk'.vec0Available]_vars
  /\ [](~wk.lateIndexUse)

\* what holds: in a worker whose initialization never failed the index does
\* stay unavailable
IndexStaysUnavailableUnlessInitFailed ==
  /\ [][(wk.marked /\ ~wk.vec0Available /\ \A k \in Inits : wk'.inits[k] # "failed")
          => ~wk'.vec0Available]_vars
  /\ []((\A k \in Inits : wk.inits[k] # "failed") => ~wk.lateIndexUse)

\* C29: after a k-nearest query threw, no later search queries the index, and
\* the search whose query threw is answered with no results, so that the
\* page goes on to the brute-force scan.
C29_QueryFailureDisablesIndex ==
  /\ ~wk.queriedAfterThrow
  /\ (wk.lastThrew => wk.searchReply = "search_results_empty")

\* the half that holds: the failed query is answered with an empty result
QueryFailureFallsThrough ==
  wk.lastThrew => wk.searchReply = "search_results_empty"


\* ------------------------------------------------------------------------
\* Rehydration and mirroring (checked under SpecRehydrate)
\* ------------------------------------------------------------------------
NextRehydrate ==
  \/ FoundMirror /\ UNCHANGED <<memVars, sessVars, archiveVars, auxVars>>
  \/ Prepare /\ UNCHANGED <<memVars, sessVars, archiveVars, auxVars>>
  \/ Reload /\ UNCHANGED <<memVars, sessVars, archiveVars, auxVars>>

SpecRehydrate == InitStore /\ [][NextRehydrate]_vars

ValidMirrorRecord(m) == toVecBlobFromEmbedding(m.embedding) # NullEmbedding

SameChunk(r, m) ==
  /\ SameKey(r, m.userId, m.sourceName, m.chunkIndex)
  /\ r.text = m.text
  /\ r.status = m.status

RehydratesPresentRows ==
  /\ db = "null"
  /\ \E m \in idb : ValidMirrorRecord(m) /\ \E r \in table : SameChunk(r, m)

OldVars ==
  <<memVars, sessVars, storeVars, archiveVars, searchVars, embVars,
    bridgeVars, textVars, raceVars, initVars>>

OldVarsButStore ==
  <<memVars, sessVars, archiveVars, searchVars, embVars, bridgeVars,
    textVars, raceVars, initVars>>

LoaderFrame == UNCHANGED <<OldVars, pool, bt, wg, ing, am>>

NextLoader ==
  \/ GetEmbedderStarts /\ LoaderFrame
  \/ ProbeResumes /\ LoaderFrame
  \/ CallerDone /\ LoaderFrame

SpecLoader == InitChat /\ [][NextLoader]_vars

LoadsOnce(m) ==
  /\ ld[m].probes <= 1
  /\ ld[m].pipelines <= 1
  /\ \A c, d \in Callers :
       (ld[m].got[c] # 0 /\ ld[m].got[d] # 0) => ld[m].got[c] = ld[m].got[d]

\* C31: in each module the backend is probed at most once and the pipeline
\* constructed at most once, and every getEmbedder call that returned
\* received the same pipeline
C31_BackendDecidedOnce == \A m \in ProbingLoaders : LoadsOnce(m)

\* C31 for the training worker and the embeddings pipeline
AtomicLoadersLoadOnce == LoadsOnce("worker") /\ LoadsOnce("pipeline")


\* ------------------------------------------------------------------------
\* The embedding pool (checked under SpecPool)
\* ------------------------------------------------------------------------
PoolFrame == UNCHANGED <<OldVars, ld, bt, wg, ing, am>>

NextPool ==
  \/ EmbedChunksCall /\ PoolFrame
  \/ EmbedTextResolves /\ PoolFrame
  \/ EmbedTextRejects /\ PoolFrame
  \/ WorkerResumes /\ PoolFrame
  \/ EmbedChunksReturns /\ PoolFrame

SpecPool == InitChat /\ [][NextPool]_vars

\* C32: no index is claimed twice; when embedChunksWithConcurrency returns,
\* every index was claimed once, all items are completed and results[i] is
\* the vector of chunks[i]
C32_EveryChunkEmbeddedOnce ==
  /\ \A i \in DOMAIN pool.claims : pool.claims[i] <= 1
  /\ pool.status = "returned" =>
       /\ pool.completed = Len(pool.chunks)
       /\ pool.inflight = {}
       /\ \A i \in DOMAIN pool.chunks :
            /\ pool.claims[i] = 1
            /\ pool.results[i] = VectorOf(pool.chunks[i])

\* a call that returned the vectors of chunks that differ, the second item
\* completed before the first
C32_Witness ==
  /\ pool.status = "returned"
  /\ Len(pool.chunks) = MaxItems
  /\ pool.chunks[1] # pool.chunks[2]
  /\ pool.order[1] = 1

UnclaimedItems == pool.status = "running" /\ pool.nextIndex < Len(pool.chunks)

Yielding == {w \in PoolWorkers : pool.pc[w] = "yield"}

\* C33 as stated: while items are unprocessed exactly EMBED_CONCURRENCY items
\* are in flight, and never more
C33_ExactlyNInFlight ==
  /\ Cardinality(pool.inflight) <= EMBED_CONCURRENCY
  /\ UnclaimedItems => Cardinality(pool.inflight) = EMBED_CONCURRENCY

\* C33 amended: never more than EMBED_CONCURRENCY items are in flight; while
\* items are unclaimed every worker has an item in flight or is in the
\* awaits that follow its item
C33_AtMostNInFlight ==
  /\ Cardinality(pool.inflight) <= EMBED_CONCURRENCY
  /\ UnclaimedItems =>
       Cardinality(pool.inflight) + Cardinality(Yielding) = EMBED_CONCURRENCY

\* one item in flight, a worker between two items, items left
C33_Witness ==
  /\ UnclaimedItems
  /\ Cardinality(pool.inflight) = 1
  /\ Cardinality(Yielding) = 1


\* ------------------------------------------------------------------------
\* The batch size (checked under SpecBatch)
\* ------------------------------------------------------------------------
BatchFrame == UNCHANGED <<OldVars, ld, pool, wg, ing, am>>

BatchSteps == (BatchDone \/ BatchingEnds) /\ BatchFrame

NextBatch ==
  \/ BatchingStarts /\ BatchFrame
  \/ BatchDone /\ BatchFrame
  \/ BatchingEnds /\ BatchFrame

\* the worker runs the loop whenever a batch can be embedded
SpecBatch == InitChat /\ [][NextBatch]_vars /\ WF_vars(BatchSteps)

BatchSizeInRange ==
  /\ bt.batchSize \in 1 .. EMBED_BATCH_SIZE_MAX
  /\ bt.used \in 1 .. EMBED_BATCH_SIZE_MAX
  /\ bt.backend # "webgpu" => bt.batchSize = 1 /\ bt.used = 1

\* a step of the loop changes the size only by doubling it, when the latency
\* of the batch is below 0.9 of the previous one and the rows that remain
\* are at least twice the size, or by halving it, when the latency is above
\* 1.25 of the previous one
BatchSizeMoves ==
  (bt.status = "running" /\ bt'.batchSize # bt.batchSize) =>
    \/ /\ bt'.batchSize = 2 * bt.batchSize
       /\ Improved(bt'.prevMsPerItem, bt.prevMsPerItem)
       /\ bt.total - bt'.i >= 2 * bt.batchSize
    \/ /\ 2 * bt'.batchSize = bt.batchSize
       /\ Regressed(bt'.prevMsPerItem, bt.prevMsPerItem)

RowsProcessedOnce ==
  /\ \A r \in DOMAIN bt.processed : bt.processed[r] <= 1
  /\ bt.status = "done" => \A r \in DOMAIN bt.processed : bt.processed[r] = 1

\* C34: the batch size is an integer from 1 to EMBED_BATCH_SIZE_MAX and 1 on
\* the fallback backend; between batches it only doubles or halves, under
\* the latency conditions; the loop ends, every pending row processed once
C34_BatchSizeTuned ==
  /\ []BatchSizeInRange
  /\ [][BatchSizeMoves]_vars
  /\ []RowsProcessedOnce
  /\ (bt.status = "running") ~> (bt.status = "done")

\* a size that was halved from the cap and has doubled back to it, the loop
\* at its end
C34_Witness ==
  /\ bt.status = "done"
  /\ bt.total = MaxPending
  /\ bt.used = EMBED_BATCH_SIZE_MAX
  /\ bt.prevMsPerItem.items < EMBED_BATCH_SIZE_MAX


\* ------------------------------------------------------------------------
\* Which response settles which call (checked under SpecBridge)
\* ------------------------------------------------------------------------
\* C35: when no workerCall was issued while a call of its operation was
\* pending, a call settled by a message of the worker is settled by the
\* response to that same call, on the archival bridge and for the calls to
\* the training worker
C35_SettledByOwnResponse ==
  ~bridge.overlap =>
    \A i \in CallIds :
      /\ bridge.by[i] \in {0, i}
      /\ (bridge.vby[i] # 0 /\ bridge.voutcome[i] = "rejected")
           => bridge.vby[i] = i

\* the half that holds: a success response resolves a pending call of the
\* operation it answers
SuccessResolvesSameOperation ==
  \A i \in CallIds :
    (bridge.outcome[i] = "resolved") =>
      /\ bridge.by[i] # 0
      /\ bridge.sent[bridge.by[i]] = bridge.sent[i]


\* ------------------------------------------------------------------------
\* Cuts at sentence ends (checked under SpecSegmenter)
\* ------------------------------------------------------------------------
\* position p of the text is the end of a sentence: a full stop and a space
\* end there
SentenceEnd(p) ==
  /\ p % BlockLen = 0
  /\ p \div BlockLen \in DOMAIN seg.clean
  /\ seg.clean[p \div BlockLen] = "s"

\* where the window that starts at start ends before findSentenceBoundary
WindowEnd(start) == Min(start + seg.maxLen, TrimmedLength(seg.clean))

\* the window ends before the end of the text and in the middle of a
\* sentence, and a sentence ends inside it
EndsMidSentence(w) ==
  /\ WindowEnd(w.start) < TrimmedLength(seg.clean)
  /\ ~SentenceEnd(WindowEnd(w.start))
  /\ \E p \in w.start + 1 .. WindowEnd(w.start) - 1 : SentenceEnd(p)

\* C36: a window that would end in the middle of a sentence while a sentence
\* ends inside it is cut at the end of a sentence
C36_CutAtSentenceEnd ==
  \A i \in DOMAIN seg.windows :
    EndsMidSentence(seg.windows[i]) => SentenceEnd(seg.windows[i].end)

\* two sentences of 3 * BlockLen = 90 characters and a maxLen that ends
\* inside the second: the first window is cut at maxLen
TwoSentencesCutMidWord ==
  /\ seg.clean = <<"a", "a", "s", "a", "a", "s">>
  /\ seg.maxLen = 4 * BlockLen
  /\ seg.windows # <<>>
  /\ seg.windows[1] = [start |-> 0, end |-> seg.maxLen]

\* what findSentenceBoundary does: the cut is at the last sentence end of
\* the window when that lies in its last SENTENCE_WINDOW characters and more
\* than SENTENCE_MIN_ADVANCE characters after its start
CutAtNearSentenceEnd ==
  \A i \in DOMAIN seg.windows :
    LET w == seg.windows[i]
        near == {p \in w.start + SENTENCE_MIN_ADVANCE + 1 .. WindowEnd(w.start) :
                   /\ SentenceEnd(p)
                   /\ p - 2 >= WindowEnd(w.start) - SENTENCE_WINDOW}
    IN (WindowEnd(w.start) < TrimmedLength(seg.clean) /\ near # {}) =>
         /\ w.end \in near
         /\ \A p \in near : p <= w.end


\* ------------------------------------------------------------------------
\* One send at a time in the chat widget (checked under SpecWidget)
\* ------------------------------------------------------------------------
WidgetFrame == UNCHANGED <<OldVars, ld, pool, bt, ing, am>>

NextWidget ==
  \/ UserTypes /\ WidgetFrame
  \/ HandleSubmit /\ WidgetFrame
  \/ LoadHistoryDone /\ WidgetFrame
  \/ SessionReady /\ WidgetFrame
  \/ SendSettles /\ WidgetFrame

SpecWidget == InitChat /\ [][NextWidget]_vars

\* C37: at most one session.sendMessage is in flight, and isProcessing is
\* false when a send has settled
C37_OneSendInFlight ==
  /\ wg.inFlight <= 1
  /\ wg.last # "none" => ~wg.isProcessing

\* C37 for the submits that did not arrive during the lazy history load of
\* another submit
OneSendInFlightUnlessRaced == ~wg.raced => wg.inFlight <= 1

\* the half about isProcessing
ProcessingClearedAfterSend == wg.last # "none" => ~wg.isProcessing


\* ------------------------------------------------------------------------
\* The mirror under a delete that interleaves with an ingestion (checked
\* under SpecIngest)
\* ------------------------------------------------------------------------
IngestFrame == UNCHANGED <<OldVarsButStore, ld, pool, bt, wg, am>>

NextIngest ==
  \/ IngestStarts /\ IngestFrame
  \/ IngestRow /\ IngestFrame
  \/ IngestEnds /\ IngestFrame
  \/ ClearDuringIngest /\ IngestFrame
  \/ ReloadWhenIdle /\ IngestFrame

SpecIngest == InitStore /\ [][NextIngest]_vars

\* the mirror entries whose completed row is not in the table
EntriesWithoutRow ==
  {m \in idb : ~\E r \in table :
                  /\ SameKey(r, m.userId, m.sourceName, m.chunkIndex)
                  /\ r.status = "completed"}

\* C38: while the database is open every mirror entry has its completed row
\* in the table, so that no delete leaves an entry of the owner behind, also
\* when clear_user_data runs between the steps of an ingestion
C38_MirrorEntryHasRow == db = "open" => EntriesWithoutRow = {}

\* C38 when no clear_user_data ran during an ingestion
MirrorEntryHasRowUnlessInterleaved ==
  (db = "open" /\ ~ing.interleaved) => EntriesWithoutRow = {}

\* a chunk of an owner whose data was cleared is back in the table after a
\* reload
DeletedChunkResurrected ==
  /\ ing.interleaved
  /\ ing.status = "idle"
  /\ lastOp.op = "reload"
  /\ \E m \in EntriesWithoutRow :
       \E r \in getSQLite(Worker).table :
         SameKey(r, m.userId, m.sourceName, m.chunkIndex)


\* ------------------------------------------------------------------------
\* What a resolved archiveMessages means (checked under SpecArchiveCall)
\* ------------------------------------------------------------------------
ArchiveCallFrame ==
  UNCHANGED <<memVars, sessVars, storeVars, searchVars, embVars, bridgeVars,
              textVars, raceVars, initVars, ld, pool, bt, wg, ing>>

NextArchiveCall ==
  \/ ArchiveMessagesCall /\ ArchiveCallFrame
  \/ ClearAfterArchive /\ ArchiveCallFrame

SpecArchiveCall == InitArchive /\ [][NextArchiveCall]_vars

Persisted(id) == \E c \in archive : c.id = id

\* C39: when archiveMessages has resolved every chunk it sent is in the
\* archive store
C39_ResolvedMeansPersisted ==
  am.outcome = "resolved" => \A id \in am.sent : Persisted(id)

\* what a resolved call does tell: the worker answered, and the chunks it
\* reported as stored are in the archive store
ReportedChunksPersisted ==
  am.outcome = "resolved" =>
    /\ Len(storeResults) = Cardinality(am.sent)
    /\ \A i \in DOMAIN storeResults :
         storeResults[i].success => Persisted(storeResults[i].id)


\* ------------------------------------------------------------------------
\* Retrying a failed store initialization (checked under SpecWorker)
\* ------------------------------------------------------------------------
\* initialization k passes from opening the database to awaiting
\* rehydrateFromIdb in this step
ReachesRehydration(k) ==
  wk.inits[k] = "loading" /\ wk'.inits[k] = "rehydrating"

\* C40: a failed initialization is not cached: the initialization begun by
\* the next getSQLite call is a fresh one, so the rehydration it awaits is
\* one that can still succeed, never the kept failure of an earlier attempt.
C40_RetryStartsFresh ==
  [][\A k \in Inits : ReachesRehydration(k) => wk'.rehydratePromise = "pending"]_vars

\* a retry awaiting the rejection kept from the attempt before it
RetryAwaitsKeptRejection ==
  /\ wk.inits[1] = "failed"
  /\ wk.inits[2] = "rehydrating"
  /\ wk.rehydratePromise = "rejected"
  /\ wk.scans = 1

\* what the catch of getSQLite does give: with no initialization in flight
\* and none succeeded dbPromise is null, so the next call begins another
FailureClearsDbPromise ==
  (InFlight = {} /\ wk.db = 0) => wk.dbPromise = 0

\* and what it does not: a rejected scan is never started again and the
\* store never becomes ready after it
RejectedScanIsKept ==
  wk.rehydratePromise = "rejected" => wk.db = 0 /\ wk.scans = 1


====
